---- MODULE Spec2Model ----
(***************************************************************************)
(* Verification model of the privesc_detector detection engine.            *)
(*                                                                         *)
(*   Spec       sequential calls on one BurstWindowState                   *)
(*              (auth_burst.detect, get_distinct_accounts_in_window,       *)
(*              reset)                                                     *)
(*   SpecChain  graph.builder.load_graph followed by one auth_chain.detect *)
(*              call, the depth-first walk taken one loop iteration at a   *)
(*              time; SpecChainFair adds the fairness of a running loop    *)
(*   SpecIngest concurrent EventDispatcher.on_event_inserted calls on one  *)
(*              event loop, sharing the BurstWindowState and alert store   *)
(***************************************************************************)
EXTENDS Integers, Sequences, FiniteSets, TLC

(***************************************************************************)
(* Bounds of the model.                                                    *)
(***************************************************************************)
NumHosts == 2
NumAccounts == 2
MaxCalls == 3
NumNodes == 4
MaxGraphEvents == 3
MaxChainLength == 1
NumTasks == 2
NumPaths == 1

(* BurstConfig values, scaled to the bounds above (config.py:14-16 holds   *)
(* the defaults 60 / 5 / 1000).  MaxEventsTracked is the largest cap a     *)
(* behaviour is configured with: no call sequence of the model overflows   *)
(* it, the next smaller cap is overflown by the last call.                 *)
WindowSeconds == 1
DistinctAccountThreshold == 2
MaxEventsTracked == MaxCalls

HostIds == 1..NumHosts
Accounts == 1..NumAccounts
NoHost == 0

(* Event timestamps, in seconds: two early instants and one late instant   *)
(* whose window has left both early ones behind.                           *)
Times == {0, 1, WindowSeconds + 2}

Min(a, b) == IF a < b THEN a ELSE b
Max(a, b) == IF a < b THEN b ELSE a

(* Hosts, accounts and nodes are interchangeable names.  Calls name them   *)
(* in order of first use: a call picks among the names used so far and the *)
(* next unused one.                                                        *)
UpToNext(used, limit) == 1..Min(limit, used + 1)

(* src_host_id of an event recorded on host_id: that host or another one. *)
SrcHostsFor(host_id) == {host_id, (host_id % NumHosts) + 1}

VARIABLES
    config,     \* BurstConfig the detector is called with
    windows,    \* BurstWindowState._windows: host_id -> deque of entries
    lastCall,   \* what the most recent call on the state was and returned
    hist,       \* ghost: per host, every entry recorded since the last reset
    solo,       \* ghost: per host, the window replayed from that host's calls alone
    evicted,    \* ghost: seq of every entry that was head-evicted or trimmed
    nextSeq,    \* ghost: arrival number of the next recorded entry
    calls,      \* number of calls made so far (bounded by MaxCalls)
    usedHosts,  \* ghost: host ids 1..usedHosts have been named by a call
    usedAccounts, \* ghost: account ids 1..usedAccounts have been named
    graph,      \* the nx.DiGraph built by load_graph
    loaded,     \* number of events load_graph has processed
    input,      \* ghost: the events load_graph has processed, in order
    chain,      \* arguments of the running auth_chain.detect call
    stack,      \* _all_simple_paths_from: stack of (node, path) entries
    paths,      \* _all_simple_paths_from: paths recorded so far
    results,    \* auth_chain.detect: the returned list of results
    cpc,        \* position of the chain run: build, walk, emit, done
    pc,         \* per ingest task: position in on_event_inserted
    ev,         \* per ingest task: the event it was called with
    running,    \* the task the event loop is running, NoTask between tasks
    alert_store,\* AlertStore: the alerts inserted, in order
    fired,      \* per ingest task: its local list "fired"
    pending,    \* per ingest task: detector results not yet inserted
    recorded,   \* ghost: per task, the windows right after its record call
    snap,       \* per ingest task: the snapshot detection D read and its result
    det,        \* the last call of a stateless detector: its inputs and result
    _cache,     \* EnrichmentCacheManager._cache: NoSnapshot (None) or a snapshot
    _task,      \* EnrichmentCacheManager._task: NoRefresh (None) or a task
    rtasks,     \* per refresh task: none, sleeping, cancelling, ended, failed
    stopping,   \* the task a running stop() call awaits, NoRefresh if none
    stopped,    \* how the latest stop() call ended, NoStop if none has
    builds,     \* number of _build_cache calls completed
    synced,     \* load_sync has completed
    lastBuilt,  \* ghost: the snapshot the latest _build_cache call returned
    lastRead,   \* ghost: what the latest read of `current` obtained
    heap,       \* per build, the contents of the AllEnrichments object it made
    edges_col,  \* the edges collection of the store, in insertion order
    rpc,        \* per ingest request: position in ingest_event
    rev,        \* per ingest request: the event posted
    rgraph,     \* per ingest request: the graph load_graph returned
    handed,     \* per ingest request: the dispatcher was given event and graph
    alerts_col, \* the alerts collection: per alert id, absent or its acknowledged field
    lastAck     \* the last acknowledge request: its id, what was stored, the answer

burstVars == <<config, windows, lastCall, hist, solo, evicted, nextSeq, calls,
               usedHosts, usedAccounts>>
chainVars == <<graph, loaded, input, chain, stack, paths, results, cpc>>
ingestVars == <<pc, ev, running, alert_store, fired, pending, recorded, snap>>
detVars == <<det>>
enrichVars == <<_cache, _task, rtasks, stopping, stopped, builds, synced,
                lastBuilt, lastRead, heap>>
routeVars == <<edges_col, rpc, rev, rgraph, handed>>
alertVars == <<alerts_col, lastAck>>
otherVars == <<detVars, enrichVars, routeVars, alertVars>>
vars == <<burstVars, chainVars, ingestVars, otherVars>>

(***************************************************************************)
(* Event model.                                                            *)
(***************************************************************************)

(* BaseAuthEvent.src_node_id: f"{src_account_id}|{src_host_id}".  The      *)
(* compound string is modelled as the pair: two node ids are equal iff     *)
(* both components are.                                                    *)
src_node_id(edge) == <<edge.src_account_id, edge.src_host_id>>

(***************************************************************************)
(* BurstWindowState.                                                       *)
(***************************************************************************)

(* An entry of a host's deque: the tuple (timestamp, account_id).  seq is  *)
(* a ghost tag telling apart two tuples with equal contents.               *)
Entry(timestamp, account_id, seq) ==
    [ts |-> timestamp, account_id |-> account_id, seq |-> seq]

(* Mutant of Trim: the cap drops the newest entries (pop instead of popleft). *)
TrimNewest(events, max_events) ==
    IF Len(events) > max_events THEN SubSeq(events, 1, max_events) ELSE events

(* while len(win.events) > max_events: win.events.popleft() *)
RECURSIVE Trim(_, _)
Trim(events, max_events) ==
    IF Len(events) > max_events /\ events # <<>>
    THEN Trim(Tail(events), max_events)
    ELSE events

(* Mutant of EvictStale: "if" in place of "while", one popleft per call. *)
EvictStaleOnce(events, cutoff) ==
    IF events # <<>> /\ Head(events).ts < cutoff THEN Tail(events) ELSE events

(* while win.events and win.events[0][0] < cutoff: win.events.popleft() *)
RECURSIVE EvictStale(_, _)
EvictStale(events, cutoff) ==
    IF events # <<>> /\ Head(events).ts < cutoff
    THEN EvictStale(Tail(events), cutoff)
    ELSE events

(* Mutant of record: one deque shared by every _HostWindow (a default     *)
(* value in place of the default_factory), so the entry lands in all of    *)
(* them.                                                                   *)
record_shared(w, host_id, entry, max_events) ==
    [h \in (DOMAIN w) \cup {host_id} |->
        Trim(Append(IF h \in DOMAIN w THEN w[h] ELSE <<>>, entry), max_events)]

(* BurstWindowState.record: the window mapping after the call. *)
record(w, host_id, entry, max_events) ==
    LET base == IF host_id \in DOMAIN w THEN w[host_id] ELSE <<>>
    IN  [h \in (DOMAIN w) \cup {host_id} |->
            IF h = host_id THEN Trim(Append(base, entry), max_events)
            ELSE w[h]]

(* get_distinct_accounts_in_window, lines 58-64: the window mapping after  *)
(* the eviction loop has run.                                              *)
evict_window(w, host_id, window_seconds, as_of) ==
    IF host_id \notin DOMAIN w THEN w
    ELSE [w EXCEPT ![host_id] = EvictStale(w[host_id], as_of - window_seconds)]

(* {account_id for _, account_id in win.events} *)
AccountsOf(events) == {events[i].account_id : i \in 1..Len(events)}

(* get_distinct_accounts_in_window: the returned set. *)
get_distinct_accounts_in_window(w, host_id, window_seconds, as_of) ==
    IF host_id \notin DOMAIN w THEN {}
    ELSE AccountsOf(evict_window(w, host_id, window_seconds, as_of)[host_id])

(* Mutant of reset: every window is removed, whatever host is named. *)
reset_all(w, host_id) == <<>>

(* BurstWindowState.reset: the window mapping after the call. *)
reset(w, host_id) ==
    IF host_id = NoHost THEN <<>>
    ELSE [h \in (DOMAIN w) \ {host_id} |-> w[h]]

(* Mutant of burst_fires: the threshold itself does not fire. *)
burst_fires_above(distinct, threshold) == ~(Cardinality(distinct) <= threshold)

(* auth_burst.detect, line 98: the alert is returned unless                *)
(* len(distinct) < config.distinct_account_threshold.                      *)
burst_fires(distinct, threshold) == ~(Cardinality(distinct) < threshold)

(***************************************************************************)
(* Ghost bookkeeping.                                                      *)
(***************************************************************************)
SeqsOf(events) == {events[i].seq : i \in 1..Len(events)}

(* Entries the cap removes: all but the newest max_events. *)
TrimmedSeqs(events, max_events) ==
    {events[i].seq : i \in 1..(IF Len(events) > max_events
                               THEN Len(events) - max_events ELSE 0)}

(* Entries head eviction removes: the longest prefix older than cutoff. *)
StalePrefixSeqs(events, cutoff) ==
    {events[i].seq : i \in {k \in 1..Len(events) :
                               \A j \in 1..k : events[j].ts < cutoff}}

WindowOf(w, host_id) == IF host_id \in DOMAIN w THEN w[host_id] ELSE <<>>

NoCall ==
    [op |-> "none", host_id |-> NoHost, ts |-> 0, src_account_id |-> 0,
     distinct |-> {}, fired |-> FALSE, count |-> 0]

(***************************************************************************)
(* Calls on the state.                                                     *)
(***************************************************************************)
(* BurstConfig (config.py:12-16); the cap is drawn per behaviour. *)
BurstConfig ==
    [window_seconds : {WindowSeconds},
     distinct_account_threshold : {DistinctAccountThreshold},
     max_events_tracked : (MaxEventsTracked - 1)..MaxEventsTracked]

BurstStart ==
    /\ config \in BurstConfig
    /\ windows = <<>>
    /\ lastCall = NoCall
    /\ hist = [h \in HostIds |-> <<>>]
    /\ solo = [h \in HostIds |-> <<>>]
    /\ evicted = {}
    /\ nextSeq = 1
    /\ calls = 0
    /\ usedHosts = 0
    /\ usedAccounts = 0

(* auth_burst.detect(edge, state, config): record, evict, count, decide. *)
auth_burst_detect(edge) ==
    LET ts == edge.timestamp
        entry == Entry(ts, src_node_id(edge), nextSeq)
        w1 == record(windows, edge.host_id, entry, config.max_events_tracked)
        distinct == get_distinct_accounts_in_window(w1, edge.host_id, config.window_seconds, ts)
        w2 == evict_window(w1, edge.host_id, config.window_seconds, ts)
        appended == Append(WindowOf(windows, edge.host_id), entry)
        s1 == Trim(Append(solo[edge.host_id], entry), config.max_events_tracked)
    IN  /\ windows' = w2
        /\ lastCall' = [op |-> "detect", host_id |-> edge.host_id, ts |-> ts,
                        src_account_id |-> edge.src_account_id,
                        distinct |-> distinct,
                        fired |-> burst_fires(distinct, config.distinct_account_threshold),
                        count |-> Cardinality(distinct)]
        /\ hist' = [hist EXCEPT ![edge.host_id] = Append(@, entry)]
        /\ solo' = [solo EXCEPT ![edge.host_id] = EvictStale(s1, ts - config.window_seconds)]
        /\ evicted' = evicted \cup TrimmedSeqs(appended, config.max_events_tracked)
                              \cup StalePrefixSeqs(Trim(appended, config.max_events_tracked),
                                                   ts - config.window_seconds)
        /\ nextSeq' = nextSeq + 1
        /\ UNCHANGED config
        /\ UNCHANGED <<chainVars, ingestVars, otherVars>>

Detect ==
    /\ calls < MaxCalls
    /\ \E host_id \in UpToNext(usedHosts, NumHosts),
          a \in UpToNext(usedAccounts, NumAccounts), ts \in Times :
          \E sh \in SrcHostsFor(host_id) :
              /\ auth_burst_detect([host_id |-> host_id, src_account_id |-> a,
                                    src_host_id |-> sh, timestamp |-> ts])
              /\ usedHosts' = Max(usedHosts, host_id)
              /\ usedAccounts' = Max(usedAccounts, a)
    /\ calls' = calls + 1

(* A direct call of get_distinct_accounts_in_window(host_id, w, as_of). *)
Query ==
    /\ calls < MaxCalls
    /\ \E host_id \in UpToNext(usedHosts, NumHosts), as_of \in Times :
          LET distinct == get_distinct_accounts_in_window(windows, host_id,
                                                          config.window_seconds, as_of)
          IN  /\ windows' = evict_window(windows, host_id, config.window_seconds, as_of)
              /\ lastCall' = [op |-> "query", host_id |-> host_id, ts |-> as_of,
                              src_account_id |-> 0, distinct |-> distinct,
                              fired |-> FALSE, count |-> Cardinality(distinct)]
              /\ solo' = [solo EXCEPT ![host_id] =
                              EvictStale(@, as_of - config.window_seconds)]
              /\ evicted' = evicted \cup
                     StalePrefixSeqs(WindowOf(windows, host_id), as_of - config.window_seconds)
              /\ usedHosts' = Max(usedHosts, host_id)
    /\ calls' = calls + 1
    /\ UNCHANGED <<config, hist, nextSeq, usedAccounts, chainVars, ingestVars, otherVars>>

(* BurstWindowState.reset(host_id) and reset(). *)
Reset ==
    /\ calls < MaxCalls
    /\ \E host_id \in UpToNext(usedHosts, NumHosts) \cup {NoHost} :
          /\ windows' = reset(windows, host_id)
          /\ usedHosts' = Max(usedHosts, host_id)
          /\ lastCall' = [NoCall EXCEPT !.op = "reset", !.host_id = host_id]
          /\ hist' = [h \in HostIds |->
                        IF host_id \in {NoHost, h} THEN <<>> ELSE hist[h]]
          /\ solo' = [h \in HostIds |->
                        IF host_id \in {NoHost, h} THEN <<>> ELSE solo[h]]
    /\ calls' = calls + 1
    /\ UNCHANGED <<config, evicted, nextSeq, usedAccounts, chainVars, ingestVars, otherVars>>

(***************************************************************************)
(* Graph builder and chain detector.                                       *)
(***************************************************************************)
NodeIds == 1..NumNodes

NodePairs == NodeIds \X NodeIds

(* An empty DiGraph.  edge_list[<<u, v>>] is the edge_list attribute of    *)
(* the edge u -> v, the empty sequence when the graph has no such edge.    *)
NoTier == -1

NoAttrs == [event_id |-> 0, event_category |-> "none", mechanism |-> "none"]

(* privilege_tier[n] is the node attribute of n, NoTier when n is no node; *)
(* top[<<u, v>>] holds the top-level attributes of the edge u -> v.        *)
EmptyGraph ==
    [nodes |-> {}, adj |-> [n \in NodeIds |-> <<>>],
     edge_list |-> [p \in NodePairs |-> <<>>],
     privilege_tier |-> [n \in NodeIds |-> NoTier],
     top |-> [p \in NodePairs |-> NoAttrs]]

(* The value of a graph variable where no graph has been built. *)
NoGraph == [nodes |-> {}]

(* Two of the privilege values an event may carry. *)
TierLevels == 0..1

(* The events of load_graph's input: the k-th event has id k.  For the     *)
(* chain detector only the node pair matters.                              *)
ChainEvents(g, id) ==
    {e \in [id : {id}, src_node_id : UpToNext(Cardinality(g.nodes), NumNodes),
            dst_node_id : NodeIds, src_privilege : {0}, dst_privilege : {0},
            event_category : {"session"}, mechanism : {"ssh"}] :
        e.dst_node_id \in UpToNext(Cardinality(g.nodes \cup {e.src_node_id}), NumNodes)}

BuilderNodes == 1..Min(NumNodes, 2)

BuilderEvents(g, id) ==
    {e \in [id : {id}, src_node_id : BuilderNodes, dst_node_id : BuilderNodes,
            src_privilege : TierLevels, dst_privilege : TierLevels,
            event_category : {"authentication", "session"},
            mechanism : {"kinit", "ssh"}] :
        /\ e.src_node_id \in UpToNext(Cardinality(g.nodes), NumNodes)
        /\ e.dst_node_id \in UpToNext(Cardinality(g.nodes \cup {e.src_node_id}), NumNodes)
        /\ (e.event_category = "session") <=> (e.mechanism = "ssh")}

InSeq(x, s) == \E i \in 1..Len(s) : s[i] = x
SetOf(s) == {s[i] : i \in 1..Len(s)}

(* graph.has_edge(u, v) *)
has_edge(g, u, v) == InSeq(v, g.adj[u])

(* load_graph, one iteration of its loop: both nodes are upserted and the  *)
(* edge is added unless the pair already has one.  adj[u] lists the        *)
(* successors of u in the order their edges were first added, the order    *)
(* DiGraph.neighbors iterates in.                                          *)
(* _event_attrs(event): the per-event record of an edge_list. *)
_event_attrs(event) ==
    [event_id |-> event.id, event_category |-> event.event_category,
     mechanism |-> event.mechanism, src_privilege |-> event.src_privilege,
     dst_privilege |-> event.dst_privilege]

(* Mutant of _add_or_update_node: the tier of the latest event is kept. *)
_add_or_overwrite_node(g, node_id, privilege) ==
    [g EXCEPT !.nodes = @ \cup {node_id}, !.privilege_tier[node_id] = privilege]

_add_or_update_node(g, node_id, privilege) ==
    IF node_id \notin g.nodes
    THEN [g EXCEPT !.nodes = @ \cup {node_id},
                   !.privilege_tier[node_id] = privilege]
    ELSE [g EXCEPT !.privilege_tier[node_id] = Max(@, privilege)]

(* Mutant of upsert_edge: the top-level attributes follow the latest event. *)
upsert_edge_latest(g, event) ==
    LET pair == <<event.src_node_id, event.dst_node_id>> IN
    [g EXCEPT !.adj[event.src_node_id] =
                  IF has_edge(g, pair[1], pair[2]) THEN @ ELSE Append(@, pair[2]),
              !.edge_list[pair] = Append(@, _event_attrs(event)),
              !.top[pair] = [event_id |-> event.id,
                             event_category |-> event.event_category,
                             mechanism |-> event.mechanism]]

(* builder.py:41-57: append to the edge_list of an existing edge, or add   *)
(* the edge with the first record and this event's top-level attributes.   *)
upsert_edge(g, event) ==
    LET pair == <<event.src_node_id, event.dst_node_id>> IN
    IF has_edge(g, pair[1], pair[2])
    THEN [g EXCEPT !.edge_list[pair] = Append(@, _event_attrs(event))]
    ELSE [g EXCEPT !.adj[event.src_node_id] = Append(@, event.dst_node_id),
                   !.edge_list[pair] = <<_event_attrs(event)>>,
                   !.top[pair] = [event_id |-> event.id,
                                  event_category |-> event.event_category,
                                  mechanism |-> event.mechanism]]

load_event(g, event) ==
    upsert_edge(
        _add_or_update_node(
            _add_or_update_node(g, event.src_node_id, event.src_privilege),
            event.dst_node_id, event.dst_privilege),
        event)

RECURSIVE load_from(_, _, _)
load_from(g, events, k) ==
    IF k > Len(events) THEN g ELSE load_from(load_event(g, events[k]), events, k + 1)

(* load_graph(events) *)
load_graph(events) == load_from(EmptyGraph, events, 1)

(* A graph assembled by the caller with DiGraph.add_node / add_edge, as    *)
(* tests/test_detections/test_auth_chain.py does: the edge gets            *)
(* edge_list = [{"edge_id": id, ...}].  Each pair is added once.           *)
add_edge(g, src, dst, id) ==
    [g EXCEPT !.nodes = @ \cup {src, dst},
              !.adj[src] = Append(@, dst),
              !.edge_list[<<src, dst>>] = <<[edge_id |-> id]>>]

(* The keys of the edge_list records of g. *)
RecordKeys(g) ==
    UNION {UNION {DOMAIN g.edge_list[p][i] : i \in 1..Len(g.edge_list[p])} :
             p \in NodePairs}

(* ChainConfig (config.py:19-23) and the starting node of a call. *)
ChainCalls(g) ==
    [max_chain_length : 0..MaxChainLength,
     max_graph_nodes : {NumNodes - 1, NumNodes},
     cycle_detection : BOOLEAN,
     starting_node : UpToNext(Cardinality(g.nodes), NumNodes)]

(* Mutant of Pop: the top entry is read but left on the stack. *)
Peek(stk) == stk

(* stack.pop(): the stack without its last entry. *)
Pop(stk) == SubSeq(stk, 1, Len(stk) - 1)

(* Mutant of Extensions: the "neighbor not in visited" test is missing. *)
ExtensionsUnchecked(g, node, path) ==
    [i \in 1..Len(g.adj[node]) |->
        [node |-> g.adj[node][i], path |-> Append(path, g.adj[node][i])]]

(* Mutant of Extensions: the "neighbor not in visited" test is made only  *)
(* when the call's config has cycle_detection set.                         *)
ExtensionsIfCycleDetection(g, node, path) ==
    LET NotVisited(n) == chain.cycle_detection => n \notin SetOf(path)
        fresh == SelectSeq(g.adj[node], NotVisited)
    IN  [i \in 1..Len(fresh) |->
            [node |-> fresh[i], path |-> Append(path, fresh[i])]]

(* for neighbor in graph.neighbors(node): if neighbor not in visited:      *)
(*     stack.append((neighbor, path + [neighbor]))                        *)
Extensions(g, node, path) ==
    LET NotVisited(n) == n \notin SetOf(path)
        fresh == SelectSeq(g.adj[node], NotVisited)
    IN  [i \in 1..Len(fresh) |->
            [node |-> fresh[i], path |-> Append(path, fresh[i])]]

(* One iteration of the while loop of _all_simple_paths_from. *)
dfs_step(g, stk, found, cutoff) ==
    LET top == stk[Len(stk)]
        rest == Pop(stk)
        rec == IF Len(top.path) > 1 THEN Append(found, top.path) ELSE found
    IN  IF Len(top.path) - 1 >= cutoff
        THEN [stack |-> rest, paths |-> rec]
        ELSE [stack |-> rest \o Extensions(g, top.node, top.path), paths |-> rec]

(* Mutant of chain_fires: a chain of exactly max_chain_length hops fires. *)
chain_fires_at(hop_count, max_chain_length) == hop_count >= max_chain_length

(* auth_chain.detect, line 50: if hop_count > config.max_chain_length *)
chain_fires(hop_count, max_chain_length) == hop_count > max_chain_length

(* _collect_edge_ids, line 113: edge_list[0]["edge_id"], a KeyError when   *)
(* the record has no such key.                                             *)
first_edge_id(edge_list) ==
    IF "edge_id" \in DOMAIN edge_list[1]
    THEN [raised |-> FALSE, ids |-> <<edge_list[1].edge_id>>]
    ELSE [raised |-> TRUE, ids |-> <<>>]

(* _collect_edge_ids(graph, path): the ids collected for the consecutive   *)
(* pairs of path, or raised = TRUE when a lookup raises KeyError.  A pair  *)
(* without edge data contributes nothing (lines 109-115).                  *)
RECURSIVE _collect_edge_ids(_, _)
_collect_edge_ids(g, path) ==
    IF Len(path) < 2 THEN [raised |-> FALSE, ids |-> <<>>]
    ELSE LET edge_list == g.edge_list[<<path[1], path[2]>>]
             hop == IF edge_list # <<>> THEN first_edge_id(edge_list)
                    ELSE [raised |-> FALSE, ids |-> <<>>]
             rest == _collect_edge_ids(g, Tail(path))
         IN  IF hop.raised \/ rest.raised
             THEN [raised |-> TRUE, ids |-> <<>>]
             ELSE [raised |-> FALSE, ids |-> hop.ids \o rest.ids]

(* auth_chain.detect, lines 48-72: the results for the recorded paths, or  *)
(* raised = TRUE when _collect_edge_ids raises for one of them.            *)
RECURSIVE emit_results(_, _, _)
emit_results(g, found, max_chain_length) ==
    IF found = <<>> THEN [raised |-> FALSE, results |-> <<>>]
    ELSE LET path == Head(found)
             hop_count == Len(path) - 1
             tail == emit_results(g, Tail(found), max_chain_length)
             edge_ids == _collect_edge_ids(g, path)
         IN  IF ~chain_fires(hop_count, max_chain_length) THEN tail
             ELSE IF edge_ids.raised \/ tail.raised
             THEN [raised |-> TRUE, results |-> <<>>]
             ELSE [raised |-> FALSE,
                   results |-> <<[node_ids |-> path, hop_count |-> hop_count,
                                  starting_node |-> path[1],
                                  edge_ids |-> edge_ids.ids]>> \o tail.results]

NoChainCall ==
    [max_chain_length |-> 0, max_graph_nodes |-> 0, cycle_detection |-> TRUE,
     starting_node |-> 0]

ChainStart ==
    /\ graph = EmptyGraph
    /\ loaded = 0
    /\ input = <<>>
    /\ chain = NoChainCall
    /\ stack = <<>>
    /\ paths = <<>>
    /\ results = <<>>
    /\ cpc = "build"

ChainIdle ==
    /\ graph = NoGraph
    /\ loaded = 0
    /\ input = <<>>
    /\ chain = NoChainCall
    /\ stack = <<>>
    /\ paths = <<>>
    /\ results = <<>>
    /\ cpc = "idle"

BurstIdle ==
    /\ config = [window_seconds |-> WindowSeconds,
                 distinct_account_threshold |-> DistinctAccountThreshold,
                 max_events_tracked |-> MaxEventsTracked]
    /\ windows = <<>>
    /\ lastCall = NoCall
    /\ hist = [h \in HostIds |-> <<>>]
    /\ solo = [h \in HostIds |-> <<>>]
    /\ evicted = {}
    /\ nextSeq = 1
    /\ calls = 0
    /\ usedHosts = 0
    /\ usedAccounts = 0

(* load_graph processes the next event of its input list. *)
LoadEvent ==
    /\ cpc \in {"build", "load"}
    /\ loaded < MaxGraphEvents
    /\ "edge_id" \notin RecordKeys(graph)
    /\ \E event \in (IF cpc = "load" THEN BuilderEvents(graph, loaded + 1)
                                       ELSE ChainEvents(graph, loaded + 1)) :
          /\ graph' = load_event(graph, event)
          /\ input' = Append(input, event)
    /\ loaded' = loaded + 1
    /\ UNCHANGED <<chain, stack, paths, results, cpc, burstVars, ingestVars, otherVars>>

(* The caller assembles the graph itself, one add_edge per node pair. *)
AddEdge ==
    /\ cpc = "build"
    /\ loaded < MaxGraphEvents
    /\ "event_id" \notin RecordKeys(graph)
    /\ \E src \in UpToNext(Cardinality(graph.nodes), NumNodes) :
          \E dst \in UpToNext(Cardinality(graph.nodes \cup {src}), NumNodes) :
              /\ ~has_edge(graph, src, dst)
              /\ graph' = add_edge(graph, src, dst, loaded + 1)
    /\ loaded' = loaded + 1
    /\ input' = input
    /\ UNCHANGED <<chain, stack, paths, results, cpc, burstVars, ingestVars, otherVars>>

(* Mutant of bails_out: a graph of exactly max_graph_nodes nodes is        *)
(* refused too.                                                            *)
bails_out_at(g, c) ==
    \/ Cardinality(g.nodes) >= c.max_graph_nodes
    \/ c.starting_node \notin g.nodes

(* auth_chain.detect, lines 37-41: the two early returns. *)
bails_out(g, c) ==
    \/ Cardinality(g.nodes) > c.max_graph_nodes
    \/ c.starting_node \notin g.nodes

(* auth_chain.detect, lines 35-46: the two bail-outs, then the walk starts *)
(* with stack = [(source, [source])].                                      *)
DetectChain ==
    /\ cpc = "build"
    /\ \E c \in ChainCalls(graph) :
          /\ chain' = c
          /\ IF bails_out(graph, c)
             THEN /\ cpc' = "done"
                  /\ stack' = <<>>
             ELSE /\ cpc' = "walk"
                  /\ stack' = <<[node |-> c.starting_node,
                                 path |-> <<c.starting_node>>]>>
    /\ paths' = <<>>
    /\ results' = <<>>
    /\ UNCHANGED <<graph, loaded, input, burstVars, ingestVars, otherVars>>

(* while stack: one iteration. *)
DfsStep ==
    /\ cpc = "walk"
    /\ stack # <<>>
    /\ LET r == dfs_step(graph, stack, paths, chain.max_chain_length + 1)
       IN  /\ stack' = r.stack
           /\ paths' = r.paths
    /\ UNCHANGED <<graph, loaded, input, chain, results, cpc, burstVars, ingestVars, otherVars>>

(* The stack is empty: _all_simple_paths_from returns and detect turns the *)
(* recorded paths into results; cpc = "raised" when it ends in KeyError.   *)
Emit ==
    /\ cpc = "walk"
    /\ stack = <<>>
    /\ LET r == emit_results(graph, paths, chain.max_chain_length)
       IN  /\ results' = r.results
           /\ cpc' = IF r.raised THEN "raised" ELSE "done"
    /\ UNCHANGED <<graph, loaded, input, chain, stack, paths, burstVars, ingestVars, otherVars>>

(***************************************************************************)
(* The stateless detectors: privilege escalation and keytab smuggling.     *)
(***************************************************************************)

(* src_privilege and dst_privilege are floats in [0.0, 1.0]               *)
(* (events.py:55-56), taken here at the tenths: level k is the double      *)
(* nearest to k/10.                                                        *)
PrivilegeLevels == 0..10

(* A double near a multiple of 0.1 is written 100 * k + d: d = 0 is the    *)
(* double nearest to k/10 (the value of the literal), d = -1 a double just *)
(* below it and d = 1 a double just above it.                              *)
Literal(k) == 100 * k

(* The pairs (src, dst) of levels, src < dst, for which the double         *)
(* subtraction dst/10 - src/10 falls just below the double nearest to      *)
(* (dst - src)/10, e.g. 0.3 - 0.1 = 0.19999999999999998.                   *)
RoundsBelow ==
    {<<1, 3>>, <<2, 3>>, <<2, 6>>, <<2, 7>>, <<3, 7>>, <<4, 5>>, <<4, 6>>,
     <<4, 7>>, <<5, 6>>, <<5, 7>>, <<6, 7>>, <<8, 9>>, <<8, 10>>, <<9, 10>>}

(* The pairs for which it falls just above, e.g. 0.4 - 0.1 =               *)
(* 0.30000000000000004.                                                    *)
RoundsAbove ==
    {<<1, 4>>, <<1, 8>>, <<2, 8>>, <<3, 4>>, <<3, 9>>, <<5, 8>>, <<6, 8>>,
     <<6, 9>>, <<7, 8>>, <<7, 9>>, <<7, 10>>}

(* event.dst_privilege - event.src_privilege in double arithmetic          *)
(* (privilege_escalation.py:19); x - y = -(y - x).                         *)
FloatSub(dst, src) ==
    LET lo == IF src < dst THEN src ELSE dst
        hi == IF src < dst THEN dst ELSE src
        d == IF <<lo, hi>> \in RoundsBelow THEN -1
             ELSE IF <<lo, hi>> \in RoundsAbove THEN 1 ELSE 0
    IN  IF src < dst THEN Literal(dst - src) + d ELSE -(Literal(hi - lo) + d)

(* privilege_escalation._severity *)
_severity(delta) ==
    IF delta < Literal(2) THEN "low"
    ELSE IF delta < Literal(5) THEN "medium"
    ELSE IF delta < Literal(8) THEN "high"
    ELSE "critical"

NoResult == [fired |-> FALSE, severity |-> "none"]

(* Mutant of privilege_escalation_detect: the enabled flag is ignored. *)
privilege_escalation_always(src_privilege, dst_privilege, enabled) ==
    LET delta == FloatSub(dst_privilege, src_privilege)
    IN  IF delta <= 0 THEN NoResult
        ELSE [fired |-> TRUE, severity |-> _severity(delta)]

(* privilege_escalation.detect *)
privilege_escalation_detect(src_privilege, dst_privilege, enabled) ==
    IF ~enabled THEN NoResult
    ELSE LET delta == FloatSub(dst_privilege, src_privilege)
         IN  IF delta <= 0 THEN NoResult
             ELSE [fired |-> TRUE, severity |-> _severity(delta)]

NoDet == [detector |-> "none"]

(***************************************************************************)
(* Enrichment snapshot and keytab smuggling detector.                      *)
(***************************************************************************)
KeytabPaths == 1..NumPaths
NoPath == 0
EmptyPath == -1

(* AuthenticationEvent.keytab_path: None, the empty string or a path. *)
KeytabPathValues == KeytabPaths \cup {NoPath, EmptyPath}

(* VaultCache.keytabs_by_host; a host without an entry has the empty set   *)
(* (vault.py:17: keytabs_by_host.get(host_id, set())).                     *)
VaultCaches == [HostIds -> SUBSET KeytabPaths]

(* CriticalAccountsCache.accounts, by the is_critical flag of the account  *)
(* or "absent" when the cache does not know it.                            *)
CriticalAccountsCaches == [Accounts -> {"absent", "critical", "normal"}]

(* AllEnrichments *)
Snapshots == [vault : VaultCaches, critical_accounts : CriticalAccountsCaches]

(* VaultCache.is_keytab_expected *)
is_keytab_expected(vault, host_id, keytab_path) == keytab_path \in vault[host_id]

(* Mutant of is_keytab_in_vault: only the first host's paths are searched. *)
is_keytab_in_first_host(vault, keytab_path) == keytab_path \in vault[1]

(* VaultCache.is_keytab_in_vault *)
is_keytab_in_vault(vault, keytab_path) ==
    \E h \in DOMAIN vault : keytab_path \in vault[h]

(* Mutant of is_critical: an account the cache knows is critical. *)
is_critical_known(accounts, account_id) == accounts[account_id] # "absent"

(* CriticalAccountsCache.is_critical: acct.is_critical if acct else False *)
is_critical(accounts, account_id) ==
    IF accounts[account_id] = "absent" THEN FALSE
    ELSE accounts[account_id] = "critical"

(* The events handed to keytab_smuggling.detect.  auth_success says whether *)
(* the event is a confirmed successful authentication; detect does not     *)
(* read it (AuthenticationEvent has no such field, AuthEdge has).          *)
KeytabEvents ==
    [mechanism : {"kinit", "oidc"}, keytab_path : KeytabPathValues,
     host_id : HostIds, src_account_id : Accounts, auth_success : BOOLEAN]

NoKeytabResult ==
    [fired |-> FALSE, severity |-> "none", in_vault |-> FALSE,
     in_expected_location |-> FALSE, account_is_critical |-> FALSE]

(* Mutant of keytab_smuggling_detect: a keytab that is in the vault is     *)
(* taken as legitimate wherever it is used.                                *)
keytab_smuggling_vault_only(event, enrichments, enabled) ==
    IF ~enabled \/ event.mechanism # "kinit"
       \/ event.keytab_path \in {NoPath, EmptyPath}
    THEN NoKeytabResult
    ELSE LET in_vault == is_keytab_in_vault(enrichments.vault, event.keytab_path)
             in_expected_location ==
                 is_keytab_expected(enrichments.vault, event.host_id, event.keytab_path)
             critical == is_critical(enrichments.critical_accounts, event.src_account_id)
         IN  IF in_vault THEN NoKeytabResult
             ELSE [fired |-> TRUE,
                   severity |-> IF critical THEN "critical" ELSE "high",
                   in_vault |-> in_vault,
                   in_expected_location |-> in_expected_location,
                   account_is_critical |-> critical]

(* keytab_smuggling.detect; "not event.keytab_path" holds for None and for *)
(* the empty string.                                                       *)
keytab_smuggling_detect(event, enrichments, enabled) ==
    IF ~enabled THEN NoKeytabResult
    ELSE IF event.mechanism # "kinit" THEN NoKeytabResult
    ELSE IF event.keytab_path \in {NoPath, EmptyPath} THEN NoKeytabResult
    ELSE LET in_vault == is_keytab_in_vault(enrichments.vault, event.keytab_path)
             in_expected_location ==
                 is_keytab_expected(enrichments.vault, event.host_id, event.keytab_path)
             critical == is_critical(enrichments.critical_accounts, event.src_account_id)
         IN  IF in_vault /\ in_expected_location THEN NoKeytabResult
             ELSE [fired |-> TRUE,
                   severity |-> IF critical THEN "critical" ELSE "high",
                   in_vault |-> in_vault,
                   in_expected_location |-> in_expected_location,
                   account_is_critical |-> critical]

(* One call of keytab_smuggling.detect. *)
DetectKeytab ==
    /\ det = NoDet
    /\ \E event \in KeytabEvents, enrichments \in Snapshots, enabled \in BOOLEAN :
          det' = [detector |-> "keytab_smuggling", event |-> event,
                  enrichments |-> enrichments, enabled |-> enabled,
                  result |-> keytab_smuggling_detect(event, enrichments, enabled)]
    /\ UNCHANGED <<burstVars, chainVars, ingestVars, enrichVars, routeVars, alertVars>>

DetIdle == det = NoDet

(* One call of privilege_escalation.detect.  The detector keeps no state,  *)
(* so a behaviour makes one call.                                          *)
DetectPrivEsc ==
    /\ det = NoDet
    /\ \E src \in PrivilegeLevels, dst \in PrivilegeLevels, enabled \in BOOLEAN :
          det' = [detector |-> "privilege_escalation",
                  src_privilege |-> src, dst_privilege |-> dst,
                  enabled |-> enabled,
                  result |-> privilege_escalation_detect(src, dst, enabled)]
    /\ UNCHANGED <<burstVars, chainVars, ingestVars, enrichVars, routeVars, alertVars>>

(***************************************************************************)
(* EnrichmentCacheManager (enrichment/cache.py).  A snapshot is named by   *)
(* the _build_cache call that produced each of its two parts; build 0 is   *)
(* no build, so NoSnapshot stands for None.                                *)
(***************************************************************************)
\* Bound on the calls of start_refresh_loop.
MaxStarts == 2

\* Bound on the calls of _build_cache.
MaxBuilds == 3

RefreshTasks == 1..MaxStarts

NoRefresh == 0

NoSnapshot == [vault |-> 0, critical_accounts |-> 0]

(* _build_cache: both loaders run and one new EnrichmentCache is made. *)
_build_cache(n) == [vault |-> n, critical_accounts |-> n]

(* self._cache = built: the attribute is rebound to the new object. *)
swap_in_place(old, built) == [old EXCEPT !.vault = built.vault]

swap(old, built) == built

(* The `current` property. *)
current_unchecked(cache) == [raised |-> FALSE, value |-> cache]

current(cache) ==
    IF cache = NoSnapshot
    THEN [raised |-> TRUE, value |-> NoSnapshot]
    ELSE [raised |-> FALSE, value |-> cache]

NoRead == [op |-> "none"]

NoStop == [op |-> "none", raised |-> FALSE]

(* What the two loaders may return: the stubs in the repository return one *)
(* fixed dataset each, a real store returns what it holds at that time.    *)
Datasets == {"first", "second"}

Contents == [vault : Datasets, critical_accounts : Datasets]

NoContent == [vault |-> "none", critical_accounts |-> "none"]

(* _build_cache constructs a new AllEnrichments object around caches that  *)
(* to_cache built from the loaded data; `old`, the object bound to _cache, *)
(* is not touched.  An object is named by the build that made it.          *)
AllEnrichments_over(h, old, built, loaded_data) ==
    [h EXCEPT ![built.vault] = loaded_data, ![old.vault] = loaded_data]

AllEnrichments(h, old, built, loaded_data) ==
    [h EXCEPT ![built.vault] = loaded_data]

LiveTasks == {t \in RefreshTasks : rtasks[t] \in {"sleeping", "cancelling"}}

Created == {t \in RefreshTasks : rtasks[t] # "none"}

EnrichIdle ==
    /\ _cache = NoSnapshot
    /\ _task = NoRefresh
    /\ rtasks = [t \in RefreshTasks |-> "none"]
    /\ stopping = NoRefresh
    /\ builds = 0
    /\ synced = FALSE
    /\ lastBuilt = NoSnapshot
    /\ lastRead = NoRead
    /\ stopped = NoStop
    /\ heap = [n \in 0..MaxBuilds |-> NoContent]


(* The manager when serving begins: the lifespan has run load_sync and     *)
(* start_refresh_loop (main.py:42-43) and the first build holds            *)
(* loaded_data.                                                            *)
EnrichServing(loaded_data) ==
    /\ _cache = _build_cache(1)
    /\ _task = 1
    /\ rtasks = [t \in RefreshTasks |-> IF t = 1 THEN "sleeping" ELSE "none"]
    /\ stopping = NoRefresh
    /\ builds = 1
    /\ synced = TRUE
    /\ lastBuilt = _build_cache(1)
    /\ lastRead = NoRead
    /\ stopped = NoStop
    /\ heap = AllEnrichments([n \in 0..MaxBuilds |-> NoContent], NoSnapshot,
                             _build_cache(1), loaded_data)

(* load_sync: the initial load at startup, before event loop tasks start. *)
LoadSync ==
    /\ ~synced
    /\ Created = {}
    /\ builds < MaxBuilds
    /\ builds' = builds + 1
    /\ lastBuilt' = _build_cache(builds + 1)
    /\ _cache' = swap(_cache, _build_cache(builds + 1))
    /\ \E loaded_data \in Contents :
          heap' = AllEnrichments(heap, _cache, _build_cache(builds + 1), loaded_data)
    /\ synced' = TRUE
    /\ UNCHANGED <<_task, rtasks, stopping, stopped, lastRead>>
    /\ UNCHANGED <<burstVars, chainVars, ingestVars, detVars, routeVars, alertVars>>

(* start_refresh_loop: a new task is created and bound to _task, whatever  *)
(* _task held before.                                                      *)
StartRefreshLoop ==
    /\ synced
    /\ Cardinality(Created) < MaxStarts
    /\ LET t == Cardinality(Created) + 1 IN
          /\ rtasks' = [rtasks EXCEPT ![t] = "sleeping"]
          /\ _task' = t
    /\ stopped' = NoStop
    /\ UNCHANGED <<_cache, stopping, builds, synced, lastBuilt, lastRead, heap>>
    /\ UNCHANGED <<burstVars, chainVars, ingestVars, detVars, routeVars, alertVars>>

(* _refresh_loop: the sleep of task t ends; it builds and swaps with no    *)
(* await in between, then sleeps again.                                    *)
Refresh(t) ==
    /\ rtasks[t] = "sleeping"
    /\ builds < MaxBuilds
    /\ builds' = builds + 1
    /\ lastBuilt' = _build_cache(builds + 1)
    /\ _cache' = swap(_cache, _build_cache(builds + 1))
    /\ \E loaded_data \in Contents :
          heap' = AllEnrichments(heap, _cache, _build_cache(builds + 1), loaded_data)
    /\ UNCHANGED <<_task, rtasks, stopping, stopped, synced, lastRead>>
    /\ UNCHANGED <<burstVars, chainVars, ingestVars, detVars, routeVars, alertVars>>

(* _refresh_loop: the sleep of task t ends and _build_cache raises (a load *)
(* of a store fails).  The loop has no try block: the assignment of line   *)
(* 62 is not reached and the task ends with the exception.  The failure is *)
(* followed for the task bound to _task, the one stop() awaits; a task     *)
(* that a later start() replaced changes nothing but itself by failing.    *)
RefreshRaised(t) ==
    /\ t = _task
    /\ rtasks[t] = "sleeping"
    /\ rtasks' = [rtasks EXCEPT ![t] = "failed"]
    /\ UNCHANGED <<_cache, _task, stopping, stopped, builds, synced, lastBuilt,
                   lastRead, heap>>
    /\ UNCHANGED <<burstVars, chainVars, ingestVars, detVars, routeVars, alertVars>>

(* stop, up to its await: the task bound to _task is cancelled.  With      *)
(* _task None the call returns at once and changes nothing.                *)
StopCancel ==
    /\ stopping = NoRefresh
    /\ _task # NoRefresh
    /\ rtasks' = [rtasks EXCEPT ![_task] =
                      IF @ = "sleeping" THEN "cancelling" ELSE @]
    /\ stopping' = _task
    /\ UNCHANGED <<_cache, _task, stopped, builds, synced, lastBuilt, lastRead,
                   heap>>
    /\ UNCHANGED <<burstVars, chainVars, ingestVars, detVars, routeVars, alertVars>>

(* CancelledError is thrown into the sleep of a cancelled task. *)
Cancelled(t) ==
    /\ rtasks[t] = "cancelling"
    /\ rtasks' = [rtasks EXCEPT ![t] = "ended"]
    /\ UNCHANGED <<_cache, _task, stopping, stopped, builds, synced, lastBuilt,
                   lastRead, heap>>
    /\ UNCHANGED <<burstVars, chainVars, ingestVars, detVars, routeVars, alertVars>>

(* Mutant of await_task: whatever ended the task is suppressed. *)
await_task_suppress_all(ending) == [raised |-> FALSE]

(* with suppress(asyncio.CancelledError): await self._task.  A task ended  *)
(* by its cancellation raises CancelledError, which is suppressed; a task  *)
(* ended by another exception raises that exception, which is not.         *)
await_task(ending) == [raised |-> ending = "failed"]

(* stop, after its await: the awaited task has ended. *)
StopReturn ==
    /\ stopping # NoRefresh
    /\ rtasks[stopping] \in {"ended", "failed"}
    /\ stopping' = NoRefresh
    /\ stopped' = [op |-> "stop",
                   raised |-> await_task(rtasks[stopping]).raised]
    /\ UNCHANGED <<_cache, _task, rtasks, builds, synced, lastBuilt, lastRead,
                   heap>>
    /\ UNCHANGED <<burstVars, chainVars, ingestVars, detVars, routeVars, alertVars>>

(* A reader evaluates manager.current. *)
ReadCurrent ==
    /\ lastRead' = [op |-> "read", got |-> current(_cache),
                    latest |-> lastBuilt, synced |-> synced,
                    tasks |-> {rtasks[t] : t \in RefreshTasks}, seen |-> heap[_cache.vault]]
    /\ UNCHANGED <<_cache, _task, rtasks, stopping, stopped, builds, synced,
                   lastBuilt, heap>>
    /\ UNCHANGED <<burstVars, chainVars, ingestVars, detVars, routeVars, alertVars>>

(* stop with _task None (line 48): the call returns at once. *)
StopNoTask ==
    /\ stopping = NoRefresh
    /\ _task = NoRefresh
    /\ stopped' = [op |-> "stop", raised |-> FALSE]
    /\ UNCHANGED <<_cache, _task, rtasks, stopping, builds, synced, lastBuilt,
                   lastRead, heap>>
    /\ UNCHANGED <<burstVars, chainVars, ingestVars, detVars, routeVars, alertVars>>


(***************************************************************************)
(* POST /ingest/event (api/routes/ingest.py), run by concurrent requests.  *)
(* The awaits of the handler are the store insert and the fetch-all.       *)
(***************************************************************************)
\* Bound on the number of ingest requests.
NumRequests == 2

Requests == 1..NumRequests

(* The event of request r; its id is unique to the request. *)
RouteEvents(r) ==
    [id : {r}, src_node_id : BuilderNodes, dst_node_id : BuilderNodes,
     src_privilege : {0}, dst_privilege : {0},
     event_category : {"session"}, mechanism : {"ssh"}]

NoRouteEvent == [id |-> 0]

(* The methods of EventDispatcher (dispatcher.py:29-86). *)
EventDispatcherMethods == {"on_event_inserted"}

RouteIdle ==
    /\ edges_col = <<>>
    /\ rpc = [r \in Requests |-> "new"]
    /\ rev = [r \in Requests |-> NoRouteEvent]
    /\ rgraph = [r \in Requests |-> NoGraph]
    /\ handed = [r \in Requests |-> FALSE]

(***************************************************************************)
(* AlertStore and PATCH /alerts/{alert_id}/acknowledge.                    *)
(***************************************************************************)
\* Bound on the number of alert ids.
NumAlerts == 3

AlertIds == 1..NumAlerts

NoAck == [alert_id |-> 0, stored |-> "none", status |-> 0]

(* Collection.update_one({"id": alert_id}, {"$set": {"acknowledged":       *)
(* True}}): the first document with that id is matched; it is modified     *)
(* only when the $set changes it.                                          *)
update_one(col, alert_id) ==
    [matched_count |-> IF col[alert_id] = "absent" THEN 0 ELSE 1,
     modified_count |-> IF col[alert_id] = "unacknowledged" THEN 1 ELSE 0,
     col |-> IF col[alert_id] = "absent" THEN col
             ELSE [col EXCEPT ![alert_id] = "acknowledged"]]

(* AlertStore.acknowledge, line 52 *)
acknowledge(result) == result.modified_count = 1

(* acknowledge_alert, lines 49-51 *)
acknowledge_status(updated) == IF updated THEN 200 ELSE 404

AlertsIdle ==
    /\ alerts_col = [a \in AlertIds |-> "absent"]
    /\ lastAck = NoAck

(* AlertStore.insert of a new alert: acknowledged defaults to false. *)
InsertAlert(a) ==
    /\ alerts_col[a] = "absent"
    /\ alerts_col' = [alerts_col EXCEPT ![a] = "unacknowledged"]
    /\ UNCHANGED lastAck
    /\ UNCHANGED <<burstVars, chainVars, ingestVars, detVars, enrichVars, routeVars>>

(* PATCH /alerts/{a}/acknowledge *)
AcknowledgeAlert(a) ==
    /\ LET result == update_one(alerts_col, a) IN
          /\ alerts_col' = result.col
          /\ lastAck' = [alert_id |-> a, stored |-> alerts_col[a],
                         status |-> acknowledge_status(acknowledge(result))]
    /\ UNCHANGED <<burstVars, chainVars, ingestVars, detVars, enrichVars, routeVars>>

OtherIdle == DetIdle /\ EnrichIdle /\ RouteIdle /\ AlertsIdle

(* A request arrives: the handler runs up to await edge_store.insert(edge) *)
(* (line 31).                                                              *)
RouteBegin(r) ==
    /\ rpc[r] = "new"
    /\ \E edge \in RouteEvents(r) : rev' = [rev EXCEPT ![r] = edge]
    /\ rpc' = [rpc EXCEPT ![r] = "insert"]
    /\ UNCHANGED <<edges_col, rgraph, handed>>
    /\ UNCHANGED <<burstVars, chainVars, ingestVars, detVars, enrichVars, alertVars>>

(* The insert has stored the document; the handler goes on to              *)
(* await edge_store.get_all_for_graph() (line 34).                         *)
RouteInserted(r) ==
    /\ rpc[r] = "insert"
    /\ edges_col' = Append(edges_col, rev[r])
    /\ rpc' = [rpc EXCEPT ![r] = "fetch"]
    /\ UNCHANGED <<rev, rgraph, handed>>
    /\ UNCHANGED <<burstVars, chainVars, ingestVars, detVars, enrichVars, alertVars>>

(* The fetch-all has returned the collection; load_graph builds the graph  *)
(* (line 35) and line 38 looks up dispatcher.on_edge_inserted, an          *)
(* AttributeError when EventDispatcher has no such method.                 *)
RouteFetched(r) ==
    /\ rpc[r] = "fetch"
    /\ rgraph' = [rgraph EXCEPT ![r] = load_graph(edges_col)]
    /\ IF "on_edge_inserted" \in EventDispatcherMethods
       THEN /\ handed' = [handed EXCEPT ![r] = TRUE]
            /\ rpc' = [rpc EXCEPT ![r] = "dispatch"]
       ELSE /\ handed' = handed
            /\ rpc' = [rpc EXCEPT ![r] = "raised"]
    /\ UNCHANGED <<edges_col, rev>>
    /\ UNCHANGED <<burstVars, chainVars, ingestVars, detVars, enrichVars, alertVars>>

(***************************************************************************)
(* EventDispatcher.on_event_inserted, run by concurrent tasks of one       *)
(* event loop.  A task keeps the loop from one await to the next; the only *)
(* awaits of the handler are the alert-store inserts.                      *)
(***************************************************************************)
Tasks == 1..NumTasks
NoTask == 0

(* The events handed to the dispatcher.  The results of the detectors that *)
(* are pure functions of (event, graph) are inputs here: escalates =       *)
(* privilege_escalation.detect returns a result, chain_hits = number of    *)
(* results auth_chain.detect returns, or ChainRaises when it raises.       *)
ChainRaises == -1

ChainHits == 0..2

AuthEvents ==
    {e \in [host_id : {1}, src_account_id : Accounts, src_host_id : {1},
            timestamp : {0, WindowSeconds + 2}, escalates : BOOLEAN,
            chain_hits : {ChainRaises} \cup ChainHits,
            event_category : {"authentication", "session"},
            mechanism : {"kinit", "oidc", "ssh"},
            keytab_path : KeytabPathValues] :
        /\ (e.event_category = "session") <=> (e.mechanism = "ssh")
        /\ (e.event_category = "session") => (e.keytab_path = NoPath)}

(* The events of a handler that runs alone: its window holds one entry,   *)
(* so one timestamp stands for all.                                        *)
DispatchEvents == {e \in AuthEvents : e.timestamp = 0}

(* The workload of concurrent handlers: at the early instant a kinit event *)
(* with a keytab where the chain detector has a result and a session event *)
(* where it has none, each escalating or not; at the late instant, whose   *)
(* window has left the early entries behind, a session event that no       *)
(* detector but the burst detector reacts to.                              *)
IngestEvents ==
    [host_id : {1}, src_account_id : Accounts, src_host_id : {1},
     timestamp : {0}, escalates : BOOLEAN,
     chain_hits : {1}, event_category : {"authentication"},
     mechanism : {"kinit"}, keytab_path : {1}]
    \cup
    [host_id : {1}, src_account_id : Accounts, src_host_id : {1},
     timestamp : {0}, escalates : BOOLEAN,
     chain_hits : {0}, event_category : {"session"},
     mechanism : {"ssh"}, keytab_path : {NoPath}]
    \cup
    [host_id : {1}, src_account_id : Accounts, src_host_id : {1},
     timestamp : {WindowSeconds + 2}, escalates : {FALSE},
     chain_hits : {0}, event_category : {"session"},
     mechanism : {"ssh"}, keytab_path : {NoPath}]

(* A handler that runs alone is given every event; handlers that run       *)
(* concurrently are given the events of IngestEvents.                      *)
Workload ==
    IF \E t \in Tasks : pc[t] = "off" THEN DispatchEvents ELSE IngestEvents

NoEvent ==
    [host_id |-> NoHost, src_account_id |-> 0, src_host_id |-> 0,
     timestamp |-> 0, escalates |-> FALSE, chain_hits |-> 0,
     event_category |-> "none", mechanism |-> "none", keytab_path |-> NoPath]

(* The caches a loaded dataset stands for: the first dataset is empty, the *)
(* second holds every keytab on every host and every account as critical.  *)
VaultOf(dataset) ==
    [h \in HostIds |-> IF dataset = "second" THEN KeytabPaths ELSE {}]

CriticalAccountsOf(dataset) ==
    [a \in Accounts |-> IF dataset = "second" THEN "critical" ELSE "absent"]

SnapshotOf(content) ==
    [vault |-> VaultOf(content.vault),
     critical_accounts |-> CriticalAccountsOf(content.critical_accounts)]

(* Mutant of keytab_applies: detection D is run for every event. *)
keytab_applies_always(event) == TRUE

(* dispatcher.py:77: isinstance(event, AuthenticationEvent) and            *)
(* event.mechanism == "kinit".                                             *)
keytab_applies(event) ==
    event.event_category = "authentication" /\ event.mechanism = "kinit"

(* Mutant of snapshot_read: the snapshot is taken when the handler starts. *)
snapshot_read_at_start(at_start, now) == at_start

(* dispatcher.py:79: self._enrichment_cache.current is evaluated when      *)
(* detection D starts.                                                     *)
snapshot_read(at_start, now) == now

NoSnap == [start |-> NoSnapshot, used |-> NoSnapshot, result |-> NoKeytabResult]

(* Mutant of append_fired: the alert is put in front of the list. *)
prepend_fired(fired_list, alert) == <<alert>> \o fired_list

(* fired.append(alert) *)
append_fired(fired_list, alert) == Append(fired_list, alert)

(* _to_alert(result) for the result of one detector. *)
_to_alert(detection_type, t, n) ==
    [detection_type |-> detection_type, task |-> t, n |-> n]

(* Mutant of LoopAfterRecord: record is awaited, the loop is released. *)
LoopReleased(t) == NoTask

(* auth_burst.detect, lines 85-92: record is a plain call, the task keeps  *)
(* the event loop until get_distinct_accounts_in_window has run.           *)
LoopAfterRecord(t) == t

IngestStart ==
    /\ pc = [t \in Tasks |-> "idle"]
    /\ ev = [t \in Tasks |-> NoEvent]
    /\ running = NoTask
    /\ alert_store = <<>>
    /\ fired = [t \in Tasks |-> <<>>]
    /\ pending = [t \in Tasks |-> 0]
    /\ recorded = [t \in Tasks |-> <<>>]
    /\ snap = [t \in Tasks |-> NoSnap]

IngestIdle ==
    /\ pc = [t \in Tasks |-> "off"]
    /\ ev = [t \in Tasks |-> NoEvent]
    /\ running = NoTask
    /\ alert_store = <<>>
    /\ fired = [t \in Tasks |-> <<>>]
    /\ pending = [t \in Tasks |-> 0]
    /\ recorded = [t \in Tasks |-> <<>>]
    /\ snap = [t \in Tasks |-> NoSnap]

(* await self._alert_store.insert(alert) returned: the alert is stored and *)
(* appended to fired, and the task goes on with the loop in hand.          *)
Inserted(t, detection_type, n) ==
    /\ running = NoTask
    /\ alert_store' = Append(alert_store, _to_alert(detection_type, t, n))
    /\ fired' = [fired EXCEPT ![t] =
                     append_fired(@, _to_alert(detection_type, t, n))]

(* Mutant of insert_raises: the alerts the call stored before are rolled   *)
(* back when an insert fails.                                              *)
insert_raises_rollback(store, t) == SelectSeq(store, LAMBDA a : a.task # t)

(* await self._alert_store.insert(alert) raised: the store holds what it    *)
(* held, and nothing in on_event_inserted catches the error.               *)
insert_raises(store, t) == store

(* The position of a handler that ended with the error of an insert.       *)
FailedAt(position) ==
    CASE position = "a_insert" -> "a_failed"
      [] position = "b_insert" -> "b_failed"
      [] position = "c_insert" -> "c_failed"
      [] position = "d_insert" -> "d_failed"

(* An insert of the alert store raises (lines 58, 66, 73, 83): the error   *)
(* leaves on_event_inserted, which has no try block, and the call is over. *)
InsertRaised(t) ==
    /\ pc[t] \in {"a_insert", "b_insert", "c_insert", "d_insert"}
    /\ running = NoTask
    /\ alert_store' = insert_raises(alert_store, t)
    /\ pc' = [pc EXCEPT ![t] = FailedAt(pc[t])]
    /\ UNCHANGED <<ev, running, fired, pending, recorded, snap, burstVars,
                   chainVars, otherVars>>

(* on_event_inserted is called: detection A runs (lines 54-59) and, with a *)
(* result, the task suspends in the insert.                                *)
Begin(t) ==
    /\ pc[t] = "idle"
    /\ running = NoTask
    /\ \E e \in Workload :
          /\ e.src_account_id \in UpToNext(usedAccounts, NumAccounts)
          /\ usedAccounts' = Max(usedAccounts, e.src_account_id)
          /\ ev' = [ev EXCEPT ![t] = e]
          /\ snap' = [snap EXCEPT ![t].start = _cache]
          /\ IF e.escalates
             THEN /\ pc' = [pc EXCEPT ![t] = "a_insert"]
                  /\ running' = NoTask
             ELSE /\ pc' = [pc EXCEPT ![t] = "b_record"]
                  /\ running' = t
    /\ UNCHANGED <<alert_store, fired, pending, recorded, config, windows,
                   lastCall, hist, solo, evicted, nextSeq, calls, usedHosts,
                   chainVars, otherVars>>

(* lines 60-61 *)
InsertedA(t) ==
    /\ pc[t] = "a_insert"
    /\ Inserted(t, "privilege_escalation", 1)
    /\ pc' = [pc EXCEPT ![t] = "b_record"]
    /\ running' = t
    /\ UNCHANGED <<ev, pending, recorded, snap, burstVars, chainVars, otherVars>>

(* auth_burst.detect, lines 81-90: state.record(...) *)
BurstRecord(t) ==
    /\ pc[t] = "b_record"
    /\ running = t
    /\ LET entry == Entry(ev[t].timestamp, src_node_id(ev[t]), nextSeq)
           w1 == record(windows, ev[t].host_id, entry, config.max_events_tracked)
       IN  /\ windows' = w1
           /\ recorded' = [recorded EXCEPT ![t] = w1]
    /\ nextSeq' = nextSeq + 1
    /\ pc' = [pc EXCEPT ![t] = "b_count"]
    /\ running' = LoopAfterRecord(t)
    /\ UNCHANGED <<ev, alert_store, fired, pending, snap, config, lastCall,
                   hist, solo, evicted, calls, usedHosts, usedAccounts,
                   chainVars, otherVars>>

(* auth_burst.detect, lines 92-117, and dispatcher lines 65-67: the count  *)
(* is taken, and with a result the task suspends in the insert.            *)
BurstCount(t) ==
    /\ pc[t] = "b_count"
    /\ running = t
    /\ LET distinct == get_distinct_accounts_in_window(
                           windows, ev[t].host_id, config.window_seconds,
                           ev[t].timestamp)
           hit == burst_fires(distinct, config.distinct_account_threshold)
       IN  /\ windows' = evict_window(windows, ev[t].host_id,
                                      config.window_seconds, ev[t].timestamp)
           /\ IF hit
              THEN /\ pc' = [pc EXCEPT ![t] = "b_insert"]
                   /\ running' = NoTask
              ELSE /\ pc' = [pc EXCEPT ![t] = "c_detect"]
                   /\ running' = t
    /\ recorded' = [recorded EXCEPT ![t] = <<>>]
    /\ UNCHANGED <<ev, alert_store, fired, pending, snap, config, lastCall,
                   hist, solo, evicted, nextSeq, calls, usedHosts,
                   usedAccounts, chainVars, otherVars>>

(* lines 67-68 *)
InsertedB(t) ==
    /\ pc[t] = "b_insert"
    /\ Inserted(t, "auth_burst", 1)
    /\ pc' = [pc EXCEPT ![t] = "c_detect"]
    /\ running' = t
    /\ UNCHANGED <<ev, pending, recorded, snap, burstVars, chainVars, otherVars>>

(* line 71: auth_chain.detect returns its list and the for loop suspends   *)
(* in the insert of the first result, if any; when detect raises, the      *)
(* handler ends with that exception.                                       *)
ChainDetect(t) ==
    /\ pc[t] = "c_detect"
    /\ running = t
    /\ pending' = [pending EXCEPT ![t] = Max(ev[t].chain_hits, 0)]
    /\ IF ev[t].chain_hits = ChainRaises
       THEN /\ pc' = [pc EXCEPT ![t] = "raised"]
            /\ running' = NoTask
       ELSE IF ev[t].chain_hits > 0
       THEN /\ pc' = [pc EXCEPT ![t] = "c_insert"]
            /\ running' = NoTask
       ELSE /\ pc' = [pc EXCEPT ![t] = "d_detect"]
            /\ running' = t
    /\ UNCHANGED <<ev, alert_store, fired, recorded, snap, burstVars, chainVars,
                   otherVars>>

(* lines 72-74, one iteration of the for loop *)
InsertedC(t) ==
    /\ pc[t] = "c_insert"
    /\ Inserted(t, "auth_chain", ev[t].chain_hits - pending[t] + 1)
    /\ pending' = [pending EXCEPT ![t] = @ - 1]
    /\ IF pending[t] > 1
       THEN /\ pc' = pc
            /\ running' = NoTask
       ELSE /\ pc' = [pc EXCEPT ![t] = "d_detect"]
            /\ running' = t
    /\ UNCHANGED <<ev, recorded, snap, burstVars, chainVars, otherVars>>

(* lines 77-81: detection D for a kinit AuthenticationEvent, evaluated on  *)
(* the snapshot that is current now; without a result the handler returns  *)
(* (line 86), and it ends with the exception of `current` when nothing is  *)
(* loaded.                                                                 *)
KeytabDetect(t) ==
    /\ pc[t] = "d_detect"
    /\ running = t
    /\ IF keytab_applies(ev[t])
       THEN LET read == current(snapshot_read(snap[t].start, _cache))
                result == keytab_smuggling_detect(
                              ev[t], SnapshotOf(heap[read.value.vault]), TRUE)
            IN  IF read.raised
                THEN /\ pc' = [pc EXCEPT ![t] = "raised"]
                     /\ snap' = snap
                ELSE /\ pc' = [pc EXCEPT ![t] =
                                  IF result.fired THEN "d_insert" ELSE "done"]
                     /\ snap' = [snap EXCEPT ![t].used = read.value,
                                             ![t].result = result]
       ELSE /\ pc' = [pc EXCEPT ![t] = "done"]
            /\ snap' = snap
    /\ running' = NoTask
    /\ UNCHANGED <<ev, alert_store, fired, pending, recorded, burstVars,
                   chainVars, otherVars>>

(* lines 83-86 *)
InsertedD(t) ==
    /\ pc[t] = "d_insert"
    /\ Inserted(t, "keytab_smuggling", 1)
    /\ pc' = [pc EXCEPT ![t] = "done"]
    /\ running' = NoTask
    /\ UNCHANGED <<ev, pending, recorded, snap, burstVars, chainVars, otherVars>>

(***************************************************************************)
(* Specifications.                                                         *)
(***************************************************************************)
Init == BurstStart /\ ChainIdle /\ IngestIdle /\ OtherIdle

Next == Detect \/ Query \/ Reset

Spec == Init /\ [][Next]_vars

ChainInit == BurstIdle /\ ChainStart /\ IngestIdle /\ OtherIdle

ChainNext == LoadEvent \/ AddEdge \/ DetectChain \/ DfsStep \/ Emit

SpecChain == ChainInit /\ [][ChainNext]_vars

(* A call that has started runs to its end: the loop and the emitting      *)
(* for-loop are synchronous code.                                          *)
SpecChainFair == SpecChain /\ WF_vars(DfsStep) /\ WF_vars(Emit)

(* load_graph alone, on events with every attribute the graph keeps. *)
BuildInit ==
    /\ BurstIdle /\ IngestIdle /\ OtherIdle
    /\ graph = EmptyGraph
    /\ loaded = 0
    /\ input = <<>>
    /\ chain = NoChainCall
    /\ stack = <<>>
    /\ paths = <<>>
    /\ results = <<>>
    /\ cpc = "load"

BuildNext == LoadEvent

SpecBuild == BuildInit /\ [][BuildNext]_vars

RouteInit == BurstIdle /\ ChainIdle /\ IngestIdle /\ OtherIdle

RouteNext ==
    \E r \in Requests :
        \/ RouteBegin(r)
        \/ RouteInserted(r)
        \/ RouteFetched(r)

SpecRoute == RouteInit /\ [][RouteNext]_vars

AlertsInit == BurstIdle /\ ChainIdle /\ IngestIdle /\ OtherIdle

AlertsNext == \E a \in AlertIds : InsertAlert(a) \/ AcknowledgeAlert(a)

SpecAlerts == AlertsInit /\ [][AlertsNext]_vars

(* Concurrent handlers run while the first, empty snapshot is current. *)
IngestInit ==
    /\ BurstIdle /\ ChainIdle /\ IngestStart /\ DetIdle /\ RouteIdle /\ AlertsIdle
    /\ EnrichServing([vault |-> "first", critical_accounts |-> "first"])

IngestNext ==
    \E t \in Tasks :
        \/ Begin(t)
        \/ InsertedA(t)
        \/ BurstRecord(t)
        \/ BurstCount(t)
        \/ InsertedB(t)
        \/ ChainDetect(t)
        \/ InsertedC(t)
        \/ KeytabDetect(t)
        \/ InsertedD(t)
        \/ InsertRaised(t)

SpecIngest == IngestInit /\ [][IngestNext]_vars

(* The windows an earlier call left: one entry recorded on the last host,  *)
(* which is not the host of the handler's event.                           *)
EarlierEntry == Entry(0, <<1, NumHosts>>, 0)

EarlierWindows == [h \in {NumHosts} |-> <<EarlierEntry>>]

(* One handler alone, with the refresh task of the manager running: the    *)
(* burst threshold is 1 or the default, the first snapshot is any, and     *)
(* another host has a window from an earlier call.                         *)
DispatchInit ==
    /\ config \in [window_seconds : {WindowSeconds},
                   distinct_account_threshold : {1, DistinctAccountThreshold},
                   max_events_tracked : {MaxEventsTracked}]
    /\ windows = EarlierWindows
    /\ lastCall = NoCall
    /\ hist = [h \in HostIds |-> IF h = NumHosts THEN <<EarlierEntry>> ELSE <<>>]
    /\ solo = [h \in HostIds |-> IF h = NumHosts THEN <<EarlierEntry>> ELSE <<>>]
    /\ evicted = {}
    /\ nextSeq = 1
    /\ calls = 0
    /\ usedHosts = 0
    /\ usedAccounts = 0
    /\ ChainIdle
    /\ pc = [t \in Tasks |-> IF t = 1 THEN "idle" ELSE "off"]
    /\ ev = [t \in Tasks |-> NoEvent]
    /\ running = NoTask
    /\ alert_store = <<>>
    /\ fired = [t \in Tasks |-> <<>>]
    /\ pending = [t \in Tasks |-> 0]
    /\ recorded = [t \in Tasks |-> <<>>]
    /\ snap = [t \in Tasks |-> NoSnap]
    /\ DetIdle /\ RouteIdle /\ AlertsIdle
    /\ \E loaded_data \in Contents : EnrichServing(loaded_data)

DispatchNext ==
    \/ IngestNext
    \/ \E t \in RefreshTasks : Refresh(t)

SpecDispatch == DispatchInit /\ [][DispatchNext]_vars

DetInit == BurstIdle /\ ChainIdle /\ IngestIdle /\ OtherIdle

DetNext == DetectPrivEsc \/ DetectKeytab

SpecDet == DetInit /\ [][DetNext]_vars

EnrichInit == BurstIdle /\ ChainIdle /\ IngestIdle /\ OtherIdle

EnrichNext ==
    \/ LoadSync
    \/ StartRefreshLoop
    \/ \E t \in RefreshTasks : Refresh(t)
    \/ \E t \in RefreshTasks : RefreshRaised(t)
    \/ StopCancel
    \/ StopNoTask
    \/ \E t \in RefreshTasks : Cancelled(t)
    \/ StopReturn
    \/ ReadCurrent

SpecEnrich == EnrichInit /\ [][EnrichNext]_vars

(* The sleep of a refresh task ends: asyncio.sleep returns after the        *)
(* interval, and the build and swap that follow are synchronous code.      *)
SpecEnrichFair == SpecEnrich /\ \A t \in RefreshTasks : WF_vars(Refresh(t))

(***************************************************************************)
(* Claims about the burst detector (checked under Spec).                   *)
(***************************************************************************)
LastHost == lastCall.host_id
LastWindow == WindowOf(windows, LastHost)
LastHist == IF LastHost \in HostIds THEN hist[LastHost] ELSE <<>>

IsSuffix(s, t) ==
    /\ Len(s) <= Len(t)
    /\ s = SubSeq(t, Len(t) - Len(s) + 1, Len(t))

(* C1: detect returns an alert iff, after recording the event and evicting *)
(* from the head, the number of distinct account ids left in the window of *)
(* event.host_id is >= distinct_account_threshold; the alert's             *)
(* distinct_account_count is that number.                                  *)
C1_FiresIffThresholdReached ==
    lastCall.op = "detect" =>
        LET n == Cardinality(AccountsOf(LastWindow))
        IN  /\ lastCall.fired <=> (n >= config.distinct_account_threshold)
            /\ lastCall.fired => lastCall.count = n

C1_Witness ==
    /\ lastCall.op = "detect"
    /\ lastCall.fired
    /\ lastCall.count = config.distinct_account_threshold
    /\ Cardinality(AccountsOf(LastWindow)) = config.distinct_account_threshold

(* C2: when every detect call recorded on a host carries the same          *)
(* src_account_id and lies inside the window, the distinct count is 1,     *)
(* whatever the src_host_id of the events.                                 *)
C2_SameAccountCountsOnce ==
    ( /\ lastCall.op = "detect"
      /\ \A i \in 1..Len(LastHist) :
            /\ LastHist[i].account_id[1] = lastCall.src_account_id
            /\ LastHist[i].ts >= lastCall.ts - config.window_seconds
            /\ LastHist[i].ts <= lastCall.ts )
    => lastCall.count = 1

(* C3: a call for host A leaves the window of every other host unchanged,  *)
(* and each host's window and alert decision are those obtained from the   *)
(* calls made for that host alone.                                         *)
C3_Frame ==
    \A h \in HostIds :
        (lastCall'.op \in {"detect", "query"} /\ lastCall'.host_id # h) =>
            /\ (h \in DOMAIN windows') <=> (h \in DOMAIN windows)
            /\ WindowOf(windows', h) = WindowOf(windows, h)

C3_Solo ==
    /\ \A h \in HostIds : WindowOf(windows, h) = solo[h]
    /\ lastCall.op = "detect" =>
          /\ lastCall.distinct = AccountsOf(solo[LastHost])
          /\ lastCall.fired <=>
                (Cardinality(AccountsOf(solo[LastHost])) >= config.distinct_account_threshold)

C3_PerHostIsolation == [][C3_Frame]_vars /\ []C3_Solo

C3_Witness ==
    /\ lastCall.op = "detect"
    /\ ~lastCall.fired
    /\ \E h \in HostIds \ {LastHost} :
          Cardinality(AccountsOf(WindowOf(windows, h))) >= config.distinct_account_threshold

(* C4: the distinct set used by detect for an event with timestamp ts      *)
(* holds no account whose every entry recorded on that host is older than  *)
(* ts - window_seconds, in whatever order the events arrive.               *)
C4_NoStaleAccountCounted ==
    lastCall.op = "detect" =>
        \A acc \in lastCall.distinct :
            \E i \in 1..Len(LastHist) :
                /\ LastHist[i].account_id = acc
                /\ LastHist[i].ts >= lastCall.ts - config.window_seconds

(* C5: an evicted entry is never counted again: every account a detect or  *)
(* get_distinct_accounts_in_window call counts has an entry recorded on    *)
(* that host that was never evicted, also when the call's timestamp is     *)
(* older than an evicted entry's.                                          *)
C5_EvictionPermanent ==
    /\ \A h \in DOMAIN windows : SeqsOf(windows[h]) \cap evicted = {}
    /\ lastCall.op \in {"detect", "query"} =>
          \A acc \in lastCall.distinct :
              \E i \in 1..Len(LastHist) :
                  /\ LastHist[i].account_id = acc
                  /\ LastHist[i].seq \notin evicted

C5_Witness ==
    /\ lastCall.op \in {"detect", "query"}
    /\ \E i \in 1..Len(LastHist) :
          /\ LastHist[i].seq \in evicted
          /\ LastHist[i].ts > lastCall.ts
          /\ LastHist[i].ts <= lastCall.ts + config.window_seconds
          /\ LastHist[i].account_id \notin lastCall.distinct

(* C6: each host's window holds at most max_events_tracked entries and is  *)
(* a contiguous suffix, in insertion order, of the entries recorded for    *)
(* that host since the last reset.                                         *)
C6_BoundedSuffix ==
    \A h \in DOMAIN windows :
        /\ Len(windows[h]) <= config.max_events_tracked
        /\ IsSuffix(windows[h], hist[h])

C6_Witness ==
    \E h \in DOMAIN windows :
        /\ Len(windows[h]) = config.max_events_tracked
        /\ Len(hist[h]) > config.max_events_tracked
        /\ windows[h][1].ts >= windows[h][Len(windows[h])].ts

(***************************************************************************)
(* Claims about the chain detector (checked under SpecChain).              *)
(***************************************************************************)
Walked ==
    /\ cpc \in {"done", "raised"}
    /\ Cardinality(graph.nodes) <= chain.max_graph_nodes
    /\ chain.starting_node \in graph.nodes

IsSimplePath(g, p) ==
    /\ \A i \in 1..Len(p) : \A j \in 1..Len(p) : p[i] = p[j] => i = j
    /\ \A i \in 1..(Len(p) - 1) : has_edge(g, p[i], p[i + 1])

(* Every simple path of the graph with hops edges that starts at start. *)
SimplePathsFrom(g, start, hops) ==
    {p \in [1..(hops + 1) -> NodeIds] : p[1] = start /\ IsSimplePath(g, p)}

(* C8: on a graph that is walked, detect emits exactly one alert for every *)
(* simple path from starting_node with max_chain_length + 1 edges, and no  *)
(* alert for a path with hop_count <= max_chain_length.                    *)
C8_OneAlertPerLongPath ==
    Walked =>
        /\ \A p \in SimplePathsFrom(graph, chain.starting_node,
                                    chain.max_chain_length + 1) :
              Cardinality({i \in 1..Len(results) : results[i].node_ids = p}) = 1
        /\ \A i \in 1..Len(results) :
              /\ results[i].hop_count = Len(results[i].node_ids) - 1
              /\ ~(results[i].hop_count <= chain.max_chain_length)

(* C9: every reported path starts at starting_node, holds no node twice    *)
(* and follows directed edges of the graph, also on graphs with cycles and *)
(* self-loops.                                                             *)
C9_ReportedPathsSimple ==
    \A i \in 1..Len(results) :
        /\ results[i].node_ids[1] = chain.starting_node
        /\ IsSimplePath(graph, results[i].node_ids)

C9_Witness ==
    /\ cpc = "done"
    /\ \E i \in 1..Len(results) :
          LET p == results[i].node_ids
          IN  /\ has_edge(graph, p[Len(p)], p[1])
              /\ \E j \in 1..Len(p) : has_edge(graph, p[j], p[j])

(* Number of loop iterations an entry with this path still causes: itself  *)
(* and every extension of it the walk will push.                           *)
RECURSIVE Weight(_, _, _)
RECURSIVE SumWeights(_, _, _, _)
SumWeights(g, path, nexts, cutoff) ==
    IF nexts = <<>> THEN 0
    ELSE (IF Head(nexts) \in SetOf(path) THEN 0
          ELSE Weight(g, Append(path, Head(nexts)), cutoff))
         + SumWeights(g, path, Tail(nexts), cutoff)
Weight(g, path, cutoff) ==
    1 + (IF Len(path) - 1 >= cutoff THEN 0
         ELSE SumWeights(g, path, g.adj[path[Len(path)]], cutoff))

RECURSIVE Remaining(_, _, _)
Remaining(g, stk, cutoff) ==
    IF stk = <<>> THEN 0
    ELSE Weight(g, Head(stk).path, cutoff) + Remaining(g, Tail(stk), cutoff)

(* C10: the depth-first walk terminates on every graph, cycles included:   *)
(* each loop iteration lowers the number of iterations still to come, the  *)
(* stack empties and detect returns.                                       *)
C10_Progress ==
    (cpc = "walk" /\ cpc' = "walk") =>
        Remaining(graph, stack', chain.max_chain_length + 1)
            < Remaining(graph, stack, chain.max_chain_length + 1)

C10_WalkTerminates ==
    /\ (cpc = "walk") ~> (cpc = "done" /\ stack = <<>>)
    /\ [][C10_Progress]_vars

(* C11: detect returns an empty list without walking the graph whenever    *)
(* the graph has more than max_graph_nodes nodes or starting_node is not a *)
(* node of it; a graph of exactly max_graph_nodes nodes that holds         *)
(* starting_node is walked.                                                *)
C11_Refused ==
    \/ Cardinality(graph.nodes) > chain.max_graph_nodes
    \/ chain.starting_node \notin graph.nodes

C11_Entry ==
    (cpc = "build" /\ cpc' # "build") =>
        IF C11_Refused'
        THEN cpc' = "done" /\ results' = <<>> /\ stack' = <<>> /\ paths' = <<>>
        ELSE /\ cpc' = "walk"
             /\ stack' = <<[node |-> chain'.starting_node,
                            path |-> <<chain'.starting_node>>]>>

C11_BailOuts ==
    /\ []((cpc # "build" /\ C11_Refused) =>
            (cpc = "done" /\ results = <<>> /\ stack = <<>> /\ paths = <<>>))
    /\ [][C11_Entry]_vars

C11_Witness ==
    /\ cpc = "done"
    /\ Cardinality(graph.nodes) = chain.max_graph_nodes + 1
    /\ SimplePathsFrom(graph, chain.starting_node, chain.max_chain_length + 1) # {}
    /\ results = <<>>

BuiltByLoadGraph == "edge_id" \notin RecordKeys(graph)

(* The ids of the first edge_list record of each consecutive pair of p, in *)
(* a graph built by load_graph.                                            *)
FirstEventIds(g, p) ==
    [i \in 1..(Len(p) - 1) |-> g.edge_list[<<p[i], p[i + 1]>>][1].event_id]

(* C12: on a graph built by load_graph, the alert of every path that       *)
(* exceeds max_chain_length carries edge_ids of length hop_count, the i-th *)
(* being the event id of the first edge_list record of the i-th            *)
(* consecutive node pair of the path.                                      *)
C12_EdgeIdsOfFirstEvents ==
    (Walked /\ BuiltByLoadGraph) =>
        \A k \in 1..Len(paths) :
            Len(paths[k]) - 1 > chain.max_chain_length =>
                \E i \in 1..Len(results) :
                    /\ results[i].node_ids = paths[k]
                    /\ Len(results[i].edge_ids) = results[i].hop_count
                    /\ results[i].edge_ids = FirstEventIds(graph, paths[k])

(* C13: no detector raises on a legitimate input; for the chain detector:  *)
(* a call on a graph built by load_graph never ends in an error.           *)
C13_NoDetectorRaises ==
    BuiltByLoadGraph => cpc # "raised"

(***************************************************************************)
(* Claims about concurrent ingests (checked under SpecIngest).             *)
(***************************************************************************)

(* C7: the burst detector's record of an event and the distinct count for  *)
(* that event are one atomic step: while a task is between the two it     *)
(* holds the event loop and the window state is still exactly what its     *)
(* record left.                                                            *)
C7_RecordCountAtomic ==
    \A t \in Tasks :
        pc[t] = "b_count" => (running = t /\ windows = recorded[t])

C7_Witness ==
    \E t \in Tasks : \E u \in Tasks \ {t} :
        /\ pc[t] = "b_count"
        /\ pc[u] \in {"a_insert", "b_insert", "c_insert"}
        /\ ev[u].host_id = ev[t].host_id
        /\ ev[u].src_account_id # ev[t].src_account_id

(***************************************************************************)
(* Claims about the stateless detectors (checked under SpecDet).           *)
(***************************************************************************)

(* C14: privilege_escalation.detect returns an alert iff config.enabled    *)
(* and dst_privilege > src_privilege; an equal or lower destination        *)
(* privilege, or a disabled detector, gives no result.                     *)
C14_FiresIffEnabledAndHigher ==
    det.detector = "privilege_escalation" =>
        (det.result.fired <=>
            (det.enabled /\ det.dst_privilege > det.src_privilege))

C14_Witness ==
    /\ det.detector = "privilege_escalation"
    /\ det.enabled
    /\ det.dst_privilege = det.src_privilege + 1
    /\ <<det.src_privilege, det.dst_privilege>> \in RoundsBelow
    /\ det.result.fired

(* The band of a difference of delta tenths. *)
Band(tenths) ==
    IF tenths < 2 THEN "low"
    ELSE IF tenths < 5 THEN "medium"
    ELSE IF tenths < 8 THEN "high"
    ELSE "critical"

(* C15: the severity of a privilege-escalation alert is the band of        *)
(* delta = dst_privilege - src_privilege: low below 0.2, medium from 0.2   *)
(* to below 0.5, high from 0.5 to below 0.8, critical from 0.8.            *)
C15_SeverityBands ==
    (det.detector = "privilege_escalation" /\ det.result.fired) =>
        det.result.severity = Band(det.dst_privilege - det.src_privilege)

DetEvent == det.event
DetVault == det.enrichments.vault

(* C16: keytab_smuggling.detect returns an alert iff config.enabled, the   *)
(* mechanism is kinit, a keytab_path is present and NOT (the path is       *)
(* registered for some host of the vault AND registered for                *)
(* event.host_id); the alert's in_vault / in_expected_location are those   *)
(* two lookups.                                                            *)
C16_KeytabFiresIff ==
    det.detector = "keytab_smuggling" =>
        LET registered == \E h \in HostIds : DetEvent.keytab_path \in DetVault[h]
            expected == DetEvent.keytab_path \in DetVault[DetEvent.host_id]
        IN  /\ det.result.fired <=>
                  /\ det.enabled
                  /\ DetEvent.mechanism = "kinit"
                  /\ DetEvent.keytab_path \in KeytabPaths
                  /\ ~(registered /\ expected)
            /\ det.result.fired =>
                  /\ det.result.in_vault = registered
                  /\ det.result.in_expected_location = expected

C16_Witness ==
    /\ det.detector = "keytab_smuggling"
    /\ det.result.fired
    /\ det.result.in_vault
    /\ ~det.result.in_expected_location

(* C17: a keytab-smuggling alert is critical exactly when the snapshot's   *)
(* critical-accounts cache marks event.src_account_id as critical, and     *)
(* high otherwise: also for an unknown account and for a known account     *)
(* with is_critical = false.                                               *)
C17_KeytabSeverity ==
    (det.detector = "keytab_smuggling" /\ det.result.fired) =>
        det.result.severity =
            IF det.enrichments.critical_accounts[DetEvent.src_account_id] = "critical"
            THEN "critical" ELSE "high"

C17_Witness ==
    /\ det.detector = "keytab_smuggling"
    /\ det.result.fired
    /\ det.result.severity = "high"
    /\ det.enrichments.critical_accounts[DetEvent.src_account_id] = "normal"
    /\ \E a \in Accounts : det.enrichments.critical_accounts[a] = "critical"


(***************************************************************************)
(* Claims about the enrichment cache manager (checked under SpecEnrich).   *)
(***************************************************************************)

(* C18: at every moment after load_sync, `current` is exactly the snapshot *)
(* of the most recently completed build (the load_sync one before the      *)
(* first refresh, the freshly built one after a refresh), and no reader    *)
(* obtains a snapshot whose vault and critical-accounts parts come from    *)
(* different builds.                                                       *)
C18_CurrentIsLatestBuild ==
    /\ synced =>
          /\ current(_cache) = [raised |-> FALSE, value |-> lastBuilt]
          /\ lastBuilt = _build_cache(builds)
    /\ (lastRead.op = "read" /\ lastRead.synced) =>
          /\ lastRead.got.value = lastRead.latest
          /\ lastRead.got.value.vault = lastRead.got.value.critical_accounts

(* A reader obtained the snapshot of a refresh while two refresh tasks     *)
(* were alive.                                                             *)
C18_Witness ==
    /\ lastRead.op = "read"
    /\ lastRead.synced
    /\ lastRead.got.value.vault >= 2
    /\ "sleeping" \in lastRead.tasks

C20_AtMostOneRefreshTask == Cardinality(LiveTasks) <= 1

(* stop() has returned and start_refresh_loop has not been called since:   *)
(* the task bound to _task has ended and no stop call is still waiting.    *)
StopReturned ==
    /\ _task # NoRefresh
    /\ rtasks[_task] = "ended"
    /\ stopping = NoRefresh

(* C21: after stop() has returned, no refresh task of the manager is still *)
(* running and the snapshot returned by `current` never changes again.     *)
C21_QuietAfterStop ==
    /\ [](StopReturned => LiveTasks = {})
    /\ [][StopReturned /\ StopReturned' => _cache' = _cache]_vars

(* C22: a published snapshot is never modified: a reader that obtained a   *)
(* snapshot from `current` still observes the same vault and               *)
(* critical-account contents through that reference after any number of    *)
(* refreshes, and no build changes the contents of an object built before. *)
C22_PublishedSnapshotImmutable ==
    /\ []((lastRead.op = "read" /\ ~lastRead.got.raised) =>
              heap[lastRead.got.value.vault] = lastRead.seen)
    /\ [][\A n \in 1..builds : heap'[n] = heap[n]]_vars

(* A reader holds the load_sync snapshot, two refreshes have happened      *)
(* since and the current contents differ from the ones the reader holds.   *)
C22_Witness ==
    /\ lastRead.op = "read"
    /\ lastRead.got.value.vault = 1
    /\ builds >= 3
    /\ heap[builds] # lastRead.seen

(***************************************************************************)
(* Claims about one on_event_inserted call (checked under SpecDispatch).   *)
(***************************************************************************)

(* The alerts call t has inserted into the alert store, in store order. *)
InsertedBy(t) == SelectSeq(alert_store, LAMBDA a : a.task = t)

TypesOf(alerts) == {alerts[i].detection_type : i \in 1..Len(alerts)}

Rank(detection_type) ==
    CASE detection_type = "privilege_escalation" -> 1
      [] detection_type = "auth_burst" -> 2
      [] detection_type = "auth_chain" -> 3
      [] detection_type = "keytab_smuggling" -> 4

OrderedByDetector(alerts) ==
    \A i \in 1..Len(alerts) : \A j \in 1..Len(alerts) :
        i < j =>
            \/ Rank(alerts[i].detection_type) < Rank(alerts[j].detection_type)
            \/ /\ alerts[i].detection_type = "auth_chain"
               /\ alerts[j].detection_type = "auth_chain"
               /\ alerts[i].n < alerts[j].n

ChainAlerts(alerts) == SelectSeq(alerts, LAMBDA a : a.detection_type = "auth_chain")

AfterA == {"b_record", "b_count", "b_insert", "c_detect", "c_insert",
           "d_detect", "d_insert", "done", "raised"}

AfterB == {"c_detect", "c_insert", "d_detect", "d_insert", "done"}

AfterC == {"d_detect", "d_insert", "done"}

(* C23: the list a call returns is, in order, the sequence of alerts the   *)
(* call inserted into the alert store, ordered by detector: privilege      *)
(* escalation, auth burst, the auth-chain alerts in the detector's order,  *)
(* keytab smuggling; each alert is in the store before the next detector   *)
(* starts.                                                                 *)
C23_ReturnedListIsInsertedInOrder ==
    \A t \in Tasks :
        /\ fired[t] = InsertedBy(t)
        /\ OrderedByDetector(InsertedBy(t))
        /\ pc[t] \in {"idle", "off", "a_insert"} => InsertedBy(t) = <<>>
        /\ pc[t] \in AfterA =>
              ("privilege_escalation" \in TypesOf(InsertedBy(t)) <=> ev[t].escalates)
        /\ pc[t] \in {"b_record", "b_count", "b_insert"} =>
              TypesOf(InsertedBy(t)) \subseteq {"privilege_escalation"}
        /\ pc[t] \in {"c_detect", "c_insert"} =>
              "keytab_smuggling" \notin TypesOf(InsertedBy(t))
        /\ pc[t] = "c_detect" => "auth_chain" \notin TypesOf(InsertedBy(t))
        /\ pc[t] \in AfterC =>
              /\ Len(ChainAlerts(InsertedBy(t))) = ev[t].chain_hits
              /\ \A i \in 1..ev[t].chain_hits : ChainAlerts(InsertedBy(t))[i].n = i
        /\ pc[t] \in {"d_detect", "d_insert"} =>
              "keytab_smuggling" \notin TypesOf(InsertedBy(t))
        /\ pc[t] = "done" =>
              ("keytab_smuggling" \in TypesOf(InsertedBy(t)) <=> snap[t].result.fired)

(* A call returned five alerts: one of each detector and two of the chain  *)
(* detector.                                                               *)
C23_Witness ==
    \E t \in Tasks :
        /\ pc[t] = "done"
        /\ Len(fired[t]) = 5
        /\ TypesOf(fired[t]) = {"privilege_escalation", "auth_burst",
                                "auth_chain", "keytab_smuggling"}

(* C24: the dispatcher invokes the keytab-smuggling detector only for an   *)
(* AuthenticationEvent whose mechanism is kinit: for a SessionEvent and    *)
(* for an AuthenticationEvent with another mechanism the call inserts no   *)
(* keytab_smuggling alert and does not read the enrichment snapshot.       *)
C24_KeytabOnlyForKinit ==
    \A t \in Tasks :
        (\/ snap[t].used # NoSnapshot
         \/ snap[t].result # NoKeytabResult
         \/ "keytab_smuggling" \in TypesOf(InsertedBy(t)))
        => (ev[t].event_category = "authentication" /\ ev[t].mechanism = "kinit")

(* A call for an oidc AuthenticationEvent that carries a keytab path the   *)
(* current vault does not hold has returned.                               *)
C24_Witness ==
    \E t \in Tasks :
        /\ pc[t] = "done"
        /\ ev[t].mechanism = "oidc"
        /\ ev[t].keytab_path \in KeytabPaths
        /\ ~is_keytab_in_vault(SnapshotOf(heap[_cache.vault]).vault, ev[t].keytab_path)

(* C25: within an ingest the keytab detector evaluates against the single  *)
(* snapshot that is current when detection D starts, whatever swaps came   *)
(* while the call was suspended in earlier inserts, and a swap after the   *)
(* snapshot was read does not change that evaluation.                      *)
C25_SnapshotAtStepFour ==
    [][\A t \in Tasks :
          /\ (pc[t] = "d_detect" /\ pc'[t] # "d_detect" /\ keytab_applies(ev[t])) =>
                /\ snap'[t].used = _cache
                /\ snap'[t].result =
                      keytab_smuggling_detect(
                          ev[t], SnapshotOf(heap[_cache.vault]), TRUE)
                /\ pc'[t] = (IF snap'[t].result.fired THEN "d_insert" ELSE "done")
          /\ pc[t] \in {"d_insert", "done"} =>
                /\ snap'[t] = snap[t]
                /\ pc'[t] = "done" =>
                      (("keytab_smuggling" \in TypesOf(InsertedBy(t))') =
                       snap[t].result.fired)]_vars

(* A call has inserted a keytab alert that the snapshot of its start would *)
(* not have given: a swap came while it was suspended before detection D,  *)
(* and another swap came after detection D had read the snapshot.          *)
C25_Witness ==
    \E t \in Tasks :
        /\ pc[t] = "done"
        /\ snap[t].result.fired
        /\ "keytab_smuggling" \in TypesOf(InsertedBy(t))
        /\ snap[t].used # snap[t].start
        /\ ~keytab_smuggling_detect(
                ev[t], SnapshotOf(heap[snap[t].start.vault]), TRUE).fired
        /\ _cache # snap[t].used
        /\ ~keytab_smuggling_detect(
                ev[t], SnapshotOf(heap[_cache.vault]), TRUE).fired

(***************************************************************************)
(* Claims about the graph builder (checked under SpecBuild).               *)
(***************************************************************************)

(* The privileges the input events carry for node n: src_privilege where n *)
(* is the source node, dst_privilege where it is the destination node.     *)
PrivilegesOf(events, n) ==
    {events[i].src_privilege : i \in {j \in 1..Len(events) : events[j].src_node_id = n}}
    \cup
    {events[i].dst_privilege : i \in {j \in 1..Len(events) : events[j].dst_node_id = n}}

MaxOf(S) == CHOOSE x \in S : \A y \in S : y <= x

(* C27: the node set of the built graph is exactly the set of src and dst  *)
(* node ids of the events, each node's privilege_tier is the maximum of    *)
(* the privileges the events carry for it, and appending an event never    *)
(* lowers a node's privilege_tier.                                         *)
C27_NodesAndMaxTier ==
    /\ [](/\ graph.nodes =
                {input[i].src_node_id : i \in 1..Len(input)}
                \cup {input[i].dst_node_id : i \in 1..Len(input)}
          /\ \A n \in graph.nodes :
                graph.privilege_tier[n] = MaxOf(PrivilegesOf(input, n))
          /\ graph = load_graph(input))
    /\ [][\A n \in graph.nodes :
              n \in graph'.nodes /\ graph'.privilege_tier[n] >= graph.privilege_tier[n]]_vars

(* A node got the higher privilege from an earlier event and the lower one *)
(* from a later event, once as source and once as destination.             *)
C27_Witness ==
    \E i \in 1..Len(input) : \E j \in 1..Len(input) :
        /\ i < j
        /\ input[i].dst_node_id = input[j].src_node_id
        /\ input[i].dst_privilege = 1
        /\ input[j].src_privilege = 0
        /\ input[j].src_node_id # input[j].dst_node_id
        /\ input[i].src_node_id # input[i].dst_node_id

(* The input events with source s and destination d, in input order. *)
EventsOfPair(events, s, d) ==
    SelectSeq(events, LAMBDA e : e.src_node_id = s /\ e.dst_node_id = d)

RECURSIVE SumOver(_, _)
SumOver(f, S) ==
    IF S = {} THEN 0
    ELSE LET x == CHOOSE y \in S : TRUE IN f[x] + SumOver(f, S \ {x})

Occurrences(x, seq) == Cardinality({i \in 1..Len(seq) : seq[i] = x})

(* C28: for every ordered node pair the graph has at most one edge, whose  *)
(* edge_list is exactly the subsequence of input events with that source   *)
(* and destination, in input order (the lengths sum to the number of       *)
(* events), and whose top-level event id, mechanism and event_category are *)
(* those of the first such event.                                          *)
C28_OneEdgePerPair ==
    /\ \A s \in NodeIds : \A d \in NodeIds :
          LET of_pair == EventsOfPair(input, s, d) IN
          /\ Occurrences(d, graph.adj[s]) = (IF of_pair = <<>> THEN 0 ELSE 1)
          /\ graph.edge_list[<<s, d>>] =
                [i \in 1..Len(of_pair) |-> _event_attrs(of_pair[i])]
          /\ of_pair # <<>> =>
                graph.top[<<s, d>>] =
                    [event_id |-> of_pair[1].id,
                     event_category |-> of_pair[1].event_category,
                     mechanism |-> of_pair[1].mechanism]
          /\ of_pair = <<>> => graph.top[<<s, d>>] = NoAttrs
    /\ SumOver([p \in NodePairs |-> Len(graph.edge_list[p])], NodePairs) = Len(input)

(* One pair has two events of different mechanisms with an event of        *)
(* another pair between them.                                              *)
C28_Witness ==
    \E i \in 1..Len(input) : \E j \in 1..Len(input) : \E k \in 1..Len(input) :
        /\ i < k /\ k < j
        /\ input[i].src_node_id = input[j].src_node_id
        /\ input[i].dst_node_id = input[j].dst_node_id
        /\ input[i].mechanism # input[j].mechanism
        /\ <<input[k].src_node_id, input[k].dst_node_id>> #
              <<input[i].src_node_id, input[i].dst_node_id>>

(***************************************************************************)
(* Claims about the ingest route (checked under SpecRoute).                *)
(***************************************************************************)

(* The graph built for request r holds the event of r: both nodes and the  *)
(* event's record in the edge_list of the edge between them.               *)
GraphHoldsEvent(r) ==
    /\ rev[r].src_node_id \in rgraph[r].nodes
    /\ rev[r].dst_node_id \in rgraph[r].nodes
    /\ InSeq(_event_attrs(rev[r]),
             rgraph[r].edge_list[<<rev[r].src_node_id, rev[r].dst_node_id>>])

(* C26: in every ingest, under any interleaving with other ingests, the    *)
(* event is inserted before the fetch-all that feeds the graph builder,    *)
(* and the dispatcher is handed the event with a graph that holds it.      *)
C26_DispatcherGetsGraphWithEvent ==
    \A r \in Requests :
        /\ rpc[r] \in {"fetch", "dispatch", "raised"} => InSeq(rev[r], edges_col)
        /\ rpc[r] \in {"dispatch", "raised"} => (GraphHoldsEvent(r) /\ handed[r])

(***************************************************************************)
(* Claims about the alerts API (checked under SpecAlerts).                 *)
(***************************************************************************)

(* C29: for any sequence of acknowledge requests, acknowledging an alert   *)
(* id answers 404 exactly when no alert with that id is stored, and        *)
(* otherwise answers 200 and leaves the stored alert acknowledged; an      *)
(* acknowledged alert never becomes unacknowledged.                        *)
C29_AcknowledgeAnswers ==
    /\ [](lastAck # NoAck =>
             /\ (lastAck.status = 404) <=> (lastAck.stored = "absent")
             /\ (lastAck.status = 200) <=> (lastAck.stored # "absent")
             /\ lastAck.stored # "absent" =>
                   alerts_col[lastAck.alert_id] = "acknowledged")
    /\ [][\A a \in AlertIds :
              alerts_col[a] = "acknowledged" => alerts_col'[a] = "acknowledged"]_vars

(***************************************************************************)
(* Further claims about the burst detector (checked under Spec).           *)
(***************************************************************************)

(* C30: reset(host) removes the window of that host only and leaves every  *)
(* other host's window unchanged; reset() removes all windows; after a     *)
(* reset, the next detect on a cleared host counts only events recorded    *)
(* after the reset.                                                        *)
C30_ResetClearsOnlyNamedHost ==
    /\ [][(calls' = calls + 1 /\ lastCall'.op = "reset") =>
              IF lastCall'.host_id = NoHost
              THEN DOMAIN windows' = {}
              ELSE /\ DOMAIN windows' = (DOMAIN windows) \ {lastCall'.host_id}
                   /\ \A h \in DOMAIN windows' : windows'[h] = windows[h]]_vars
    /\ [](lastCall.op = "detect" =>
             lastCall.distinct \subseteq AccountsOf(hist[lastCall.host_id]))

(* A host saw one account, was reset, and the next detect on it counted    *)
(* the one other account recorded since.                                   *)
C30_Witness ==
    /\ lastCall.op = "detect"
    /\ calls = 3
    /\ usedHosts = 1
    /\ usedAccounts = 2
    /\ nextSeq = 3
    /\ Len(hist[lastCall.host_id]) = 1
    /\ Cardinality(lastCall.distinct) = 1

(***************************************************************************)
(* Further claims about the keytab detector (checked under SpecDet).        *)
(***************************************************************************)

(* C31: the keytab-smuggling detector returns no alert for an event that   *)
(* is not a confirmed successful authentication (auth_success = false),    *)
(* even when it is a kinit with an unregistered keytab.                    *)
C31_NoAlertWithoutAuthSuccess ==
    (det.detector = "keytab_smuggling" /\ ~det.event.auth_success) =>
        ~det.result.fired

(* C36: in every vault cache, a keytab path expected on a host is also in  *)
(* the vault (in_expected_location implies in_vault); hence every          *)
(* keytab-smuggling alert has in_expected_location = false, and for an     *)
(* enabled detector and a kinit event with a keytab path an alert fires    *)
(* exactly when the path is not registered for event.host_id.              *)
C36_ExpectedImpliesInVault ==
    det.detector = "keytab_smuggling" =>
        /\ \A h \in HostIds : \A path \in KeytabPaths :
              is_keytab_expected(DetVault, h, path) =>
                  is_keytab_in_vault(DetVault, path)
        /\ det.result.fired => ~det.result.in_expected_location
        /\ (det.enabled /\ DetEvent.mechanism = "kinit"
                /\ DetEvent.keytab_path \in KeytabPaths) =>
              (det.result.fired <=>
                  DetEvent.keytab_path \notin DetVault[DetEvent.host_id])

(* An alert for a path that the vault registers, but only for other hosts. *)
C36_Witness ==
    /\ det.detector = "keytab_smuggling"
    /\ det.result.fired
    /\ DetEvent.keytab_path \notin DetVault[DetEvent.host_id]
    /\ \E h \in HostIds \ {DetEvent.host_id} : DetEvent.keytab_path \in DetVault[h]

(***************************************************************************)
(* Claims about a failing alert-store insert (checked under SpecDispatch). *)
(***************************************************************************)
Failed == {"a_failed", "b_failed", "c_failed", "d_failed"}

(* The calls of the burst detector's record made so far. *)
BurstRecorded(t) == \E i \in 1..Len(WindowOf(windows, ev[t].host_id)) :
                        WindowOf(windows, ev[t].host_id)[i].account_id = src_node_id(ev[t])

(* C32: if an alert-store insert fails during on_event_inserted, the error *)
(* propagates to the caller: the insert is not retried, no later detector  *)
(* of that call runs, the alerts the call inserted earlier stay persisted  *)
(* (no rollback), and the burst window keeps the entry recorded by step 2. *)
C32_InsertErrorPropagates ==
    /\ [][\A t \in Tasks :
            /\ (pc[t] \notin Failed /\ pc'[t] \in Failed) =>
                  /\ alert_store' = alert_store
                  /\ windows' = windows
                  /\ fired'[t] = fired[t]
            /\ pc[t] \in Failed =>
                  /\ pc'[t] = pc[t]
                  /\ InsertedBy(t)' = InsertedBy(t)
                  /\ windows' = windows
                  /\ snap'[t] = snap[t]]_vars
    /\ [](\A t \in Tasks :
            /\ pc[t] \in Failed =>
                  /\ InsertedBy(t) = fired[t]
                  /\ ("privilege_escalation" \in TypesOf(InsertedBy(t)))
                        <=> (ev[t].escalates /\ pc[t] # "a_failed")
                  /\ (snap[t].used = NoSnapshot) <=> (pc[t] # "d_failed")
            /\ pc[t] = "a_failed" =>
                  (nextSeq = 1 /\ ev[t].host_id \notin DOMAIN windows)
            /\ pc[t] \in {"b_failed", "c_failed", "d_failed"} => BurstRecorded(t)
            /\ pc[t] \in {"a_failed", "b_failed"} =>
                  (pending[t] = 0 /\ "auth_chain" \notin TypesOf(InsertedBy(t)))
            /\ pc[t] = "b_failed" => "auth_burst" \notin TypesOf(InsertedBy(t))
            /\ pc[t] = "c_failed" =>
                  Len(ChainAlerts(InsertedBy(t))) = ev[t].chain_hits - pending[t]
            /\ pc[t] = "d_failed" =>
                  /\ Len(ChainAlerts(InsertedBy(t))) = Max(ev[t].chain_hits, 0)
                  /\ "keytab_smuggling" \notin TypesOf(InsertedBy(t)))

(* The insert of the second auth-chain alert failed after the call had     *)
(* stored a privilege-escalation, an auth-burst and one auth-chain alert.  *)
C32_Witness ==
    \E t \in Tasks :
        /\ pc[t] = "c_failed"
        /\ Len(InsertedBy(t)) = 3
        /\ TypesOf(InsertedBy(t)) =
              {"privilege_escalation", "auth_burst", "auth_chain"}
        /\ BurstRecorded(t)

(***************************************************************************)
(* Claims about a failing rebuild (checked under SpecEnrich and, for       *)
(* progress, under SpecEnrichFair).                                        *)
(***************************************************************************)

(* C33: stop() never surfaces an error, in any manager state: when no      *)
(* refresh task was ever started, when the task is cancelled while         *)
(* sleeping, and when the task has already ended because a rebuild raised  *)
(* a non-cancellation exception.                                           *)
C33_StopNeverRaises == ~stopped.raised

(* stop() has not been called. *)
NotStopped == stopping = NoRefresh /\ stopped = NoStop

(* C34: while the refresh loop has been started and stop() has not been    *)
(* called, a rebuild-and-swap eventually follows every sleep interval,     *)
(* also after an earlier rebuild raised an exception; a failed rebuild     *)
(* leaves `current` at the previously published snapshot and does not end  *)
(* the refreshing.                                                         *)
C34_RefreshGoesOn ==
    /\ [][\A t \in RefreshTasks :
             (rtasks[t] # "failed" /\ rtasks'[t] = "failed") => _cache' = _cache]_vars
    /\ \A n \in 0..(MaxBuilds - 1) :
          (builds = n /\ _task # NoRefresh /\ NotStopped)
              ~> (builds > n \/ ~NotStopped)

(***************************************************************************)
(* Further claims about the chain detector (checked under SpecChain).      *)
(***************************************************************************)

(* C35: every alert emitted by auth_chain.detect has hop_count exactly     *)
(* max_chain_length + 1 and node_ids of length max_chain_length + 2:       *)
(* longer chains in the graph are reported only through their prefixes of  *)
(* that length, never as longer paths.                                     *)
C35_AlertsHaveCutoffLength ==
    \A i \in 1..Len(results) :
        /\ results[i].hop_count = chain.max_chain_length + 1
        /\ Len(results[i].node_ids) = chain.max_chain_length + 2

(* A call with max_chain_length 1 reported a path whose last node has an   *)
(* edge to a node off the path: the graph holds a longer simple chain.     *)
C35_Witness ==
    /\ cpc = "done"
    /\ chain.max_chain_length = 1
    /\ \E i \in 1..Len(results) :
          \E n \in graph.nodes \ SetOf(results[i].node_ids) :
              has_edge(graph, results[i].node_ids[Len(results[i].node_ids)], n)

(* The walk written out again, from the graph, the source and the cutoff   *)
(* alone: the paths in the order the stack discipline yields them.         *)
RECURSIVE WalkFrom(_, _, _, _)
WalkFrom(g, stk, found, cutoff) ==
    IF stk = <<>> THEN found
    ELSE LET path == stk[Len(stk)]
             rest == SubSeq(stk, 1, Len(stk) - 1)
             node == path[Len(path)]
             next == SelectSeq(g.adj[node], LAMBDA n : n \notin SetOf(path))
             pushed == [i \in 1..Len(next) |-> Append(path, next[i])]
             rec == IF Len(path) > 1 THEN Append(found, path) ELSE found
         IN  IF Len(path) - 1 >= cutoff
             THEN WalkFrom(g, rest, rec, cutoff)
             ELSE WalkFrom(g, rest \o pushed, rec, cutoff)

(* The results of a call as a function of the graph, max_chain_length,     *)
(* max_graph_nodes and starting_node.                                      *)
ResultsWithoutFlag ==
    IF \/ Cardinality(graph.nodes) > chain.max_graph_nodes
       \/ chain.starting_node \notin graph.nodes
    THEN <<>>
    ELSE emit_results(graph,
                      WalkFrom(graph, <<(<<chain.starting_node>>)>>, <<>>,
                               chain.max_chain_length + 1),
                      chain.max_chain_length).results

(* C38: the cycle_detection configuration flag has no effect on the chain  *)
(* detector: for every graph, starting node and other configuration        *)
(* values, detect returns the same alerts with cycle_detection = true and  *)
(* with cycle_detection = false, and revisiting a node on the current path *)
(* is prevented in both cases.                                             *)
C38_CycleDetectionFlagIgnored ==
    /\ cpc = "done" => results = ResultsWithoutFlag
    /\ \A i \in 1..Len(paths) : Cardinality(SetOf(paths[i])) = Len(paths[i])
    /\ \A i \in 1..Len(stack) :
          Cardinality(SetOf(stack[i].path)) = Len(stack[i].path)

(* A call with cycle_detection = false has reported a path on a graph in   *)
(* which an edge leads from the path back to its first node.               *)
C38_Witness ==
    /\ cpc = "done"
    /\ ~chain.cycle_detection
    /\ \E i \in 1..Len(results) :
          LET p == results[i].node_ids
          IN  \E j \in 2..Len(p) : has_edge(graph, p[j], p[1])

(***************************************************************************)
(* The frame of the four detectors (checked under SpecDispatch).           *)
(***************************************************************************)

(* The handler of task t leaves position p in this step. *)
Leaves(t, positions) == pc[t] \in positions /\ pc'[t] # pc[t]

====
